---- MODULE Spec2Model ----
(***************************************************************************)
(* Model of the meerkat entity lifecycle engine: the config loader         *)
(* (internal/config/application/loader.go), the monitor scheduler          *)
(* (internal/monitoring/application/monitor_factory.go) and the metric     *)
(* scheduler (metrics application service), their tick tasks, the entity   *)
(* repository and the heartbeat / sample repositories.                     *)
(***************************************************************************)
EXTENDS Integers, Sequences, FiniteSets, TLC

\* ------------------------------------------------------------------------
\* Bounds of the model
\* ------------------------------------------------------------------------
\* Loader calls (LoadConfig or Stop) started in one behaviour
MaxLoads == 2
\* tick tasks spawned in one behaviour (both schedulers together)
MaxTasks == 2
\* ticker firings consumed in one behaviour (all tick tasks together)
MaxTicks == 1
\* entity repository failures injected in one behaviour
MaxRepoErrors == 1

\* ------------------------------------------------------------------------
\* Universe
\* ------------------------------------------------------------------------
Kinds == {"monitor", "metric"}

\* goroutines calling the loader: one caller, or two concurrent callers
OneClient == {"c1"}
TwoClients == {"c1", "c2"}

None == "none"

\* key of a service document under which a scheduler finds its list
ListKey(K) == IF K = "monitor" THEN "monitors" ELSE "metrics"

\* ------------------------------------------------------------------------
\* Identity
\* ------------------------------------------------------------------------
NewServiceID(instance, name) ==
    [kind |-> "service", instance |-> instance, service |-> "", type |-> "", name |-> name]

NewMonitorID(instance, service, monType, name) ==
    [kind |-> "monitor", instance |-> instance, service |-> service,
     type |-> monType, name |-> name]

NewMetricID(instance, service, metricType, name) ==
    [kind |-> "metric", instance |-> instance, service |-> service,
     type |-> metricType, name |-> name]

\* NewMonitorIDFromServiceID / NewMetricIDFromServiceID
NewProbeIDFromServiceID(K, serviceID, probeType, name) ==
    IF K = "monitor"
    THEN NewMonitorID(serviceID.instance, serviceID.name, probeType, name)
    ELSE NewMetricID(serviceID.instance, serviceID.name, probeType, name)

\* ------------------------------------------------------------------------
\* Errors
\* ------------------------------------------------------------------------
NoError == [type |-> "none", path |-> <<>>, index |-> -1]

NewValidationError(path) == [type |-> "validation", path |-> path, index |-> -1]

NewNoNameError(path) == [type |-> "noname", path |-> path, index |-> -1]

\* variant: the index is not recorded
SetIndexDropped(err, i) == err

SetIndex(err, i) == [err EXCEPT !.index = i]

NewDuplicateFoundError(path) == [type |-> "duplicate", path |-> path, index |-> -1]

RepoError == [type |-> "repo", path |-> <<>>, index |-> -1]

\* the error of json.Unmarshal, wrapped by LoadConfig
ParseError == [type |-> "parse", path |-> <<>>, index |-> -1]

\* errors.As(err, &validation.ConfigError): the types with a PrependPath
\* method returning ConfigError
IsConfigError(err) == err.type \in {"validation", "noname"}

PrependPath(err, segment) == [err EXCEPT !.path = <<segment>> \o @]

\* ------------------------------------------------------------------------
\* Configuration documents
\* ------------------------------------------------------------------------
\* a probe document: the common header and, for the fields of its type
\* (hostname of a tcp monitor, url of an http monitor), the target
Doc(n, t, i) == [name |-> n, type |-> t, interval |-> i, target |-> "h"]

SvcDoc(hasName, n, keys, mons, mets) ==
    [hasName |-> hasName, name |-> n, keys |-> keys, monitors |-> mons, metrics |-> mets]

\* a document that json.Unmarshal accepts as an InstanceConfig
CfgDoc(n, svcs) == [parses |-> TRUE, name |-> n, services |-> svcs]

\* bytes that json.Unmarshal rejects
Unparsable == [parses |-> FALSE, name |-> "", services |-> <<>>]

X1 == Doc("x", "tcp", 1)
X2 == Doc("x", "tcp", 2)
Y1 == Doc("y", "tcp", 1)
M1 == Doc("m", "cpu", 1)
BadInterval == Doc("z", "tcp", 0)
BadType == Doc("x", "cpu", 1)

Configs ==
    { CfgDoc("i", << SvcDoc(TRUE, "s1", {"monitors"}, <<X1, Y1>>, <<>>) >>),
      CfgDoc("i", << SvcDoc(TRUE, "s1", {"monitors"}, <<X1>>, <<>>) >>),
      CfgDoc("i", << SvcDoc(TRUE, "s1", {"monitors"}, <<X2>>, <<>>) >>),
      CfgDoc("i", << SvcDoc(TRUE, "s1", {"monitors"}, <<>>, <<>>) >>),
      CfgDoc("i", << SvcDoc(TRUE, "s1", {}, <<>>, <<>>) >>),
      CfgDoc("i", << SvcDoc(TRUE, "s1", {"monitors", "metrics"}, <<X1>>, <<M1>>) >>),
      CfgDoc("i", << SvcDoc(TRUE, "s2", {"metrics"}, <<>>, <<M1>>) >>),
      CfgDoc("i", << SvcDoc(TRUE, "s1", {"monitors"}, <<X1, X1>>, <<>>) >>),
      CfgDoc("i", << SvcDoc(TRUE, "s1", {"monitors"}, <<X1>>, <<>>),
                     SvcDoc(TRUE, "s2", {"monitors"}, <<BadInterval>>, <<>>) >>),
      CfgDoc("i", << SvcDoc(TRUE, "s1", {"monitors"}, <<BadType>>, <<>>) >>),
      CfgDoc("i", << SvcDoc(TRUE, "s1", {}, <<>>, <<>>),
                     SvcDoc(FALSE, "", {"monitors"}, <<Y1>>, <<>>) >>),
      CfgDoc("", << SvcDoc(TRUE, "s1", {"monitors"}, <<X1>>, <<>>) >>),
      CfgDoc("i", << >>) }

\* documents for the reloads that change a type, fail part-way or are rejected
\* as a whole
XH == Doc("x", "http", 1)
BadMetric == Doc("m", "disk", 1)
BadTarget == [Doc("x", "tcp", 1) EXCEPT !.target = ""]
NegInterval == Doc("z", "tcp", -1)
NoNameProbe == Doc("", "tcp", 1)

DocConfigs ==
    { CfgDoc("i", << SvcDoc(TRUE, "s1", {"monitors"}, <<X1>>, <<>>) >>),
      CfgDoc("i", << SvcDoc(TRUE, "s1", {"monitors"}, <<XH>>, <<>>) >>),
      CfgDoc("i", << SvcDoc(TRUE, "s2", {"monitors"}, <<Y1>>, <<>>) >>),
      CfgDoc("i", << SvcDoc(TRUE, "s2", {"metrics"}, <<>>, <<M1>>) >>),
      CfgDoc("i", << SvcDoc(TRUE, "s1", {"monitors"}, <<X1>>, <<>>),
                     SvcDoc(FALSE, "", {}, <<>>, <<>>),
                     SvcDoc(TRUE, "s2", {"monitors"}, <<>>, <<>>) >>),
      CfgDoc("i", << SvcDoc(TRUE, "s1", {"monitors", "metrics"}, <<X2>>, <<BadMetric>>) >>),
      CfgDoc("i", << SvcDoc(TRUE, "s1", {"monitors"}, <<BadInterval>>, <<>>),
                     SvcDoc(TRUE, "s2", {"monitors"}, <<>>, <<>>) >>),
      CfgDoc("i", << SvcDoc(TRUE, "s1", {"monitors"}, <<BadTarget>>, <<>>) >>),
      CfgDoc("i", << SvcDoc(TRUE, "s1", {"monitors"}, <<X1, NoNameProbe>>, <<>>) >>),
      CfgDoc("", << SvcDoc(TRUE, "s1", {"monitors"}, <<X1>>, <<>>) >>),
      CfgDoc("i", << >>),
      Unparsable }

\* the raw list a service document holds under a scheduler's key
RawList(svc, K) == IF K = "monitor" THEN svc.monitors ELSE svc.metrics

Range(s) == {s[i] : i \in DOMAIN s}

\* ------------------------------------------------------------------------
\* Validation and probe construction (pure)
\* ------------------------------------------------------------------------
\* utils.CheckName
CheckName(name) == Len(name) # 0

\* variant: a document without services passes the validation
InstanceConfigValidNameOnly(cfg) ==
    IF CheckName(cfg.name) THEN {} ELSE {"name"}

\* InstanceConfig.Valid: the set of fields with a problem
InstanceConfigValid(cfg) ==
    (IF CheckName(cfg.name) THEN {} ELSE {"name"})
    \cup (IF Len(cfg.services) = 0 THEN {"services"} ELSE {})

\* MonitorConfig.Valid / MetricConfig.Valid: the set of fields with a problem
ProbeConfigValid(doc) ==
    (IF CheckName(doc.name) THEN {} ELSE {"name"})
    \cup (IF doc.type = "" THEN {"type"} ELSE {})
    \cup (IF doc.interval = 0 THEN {"interval"} ELSE {})

\* TCPConfig.Valid / HTTPConfig.Valid, called by Configure: the set of
\* type-specific fields with a problem (CPUMetrics.Configure reads none)
TypeConfigValid(doc) ==
    IF doc.type \in {"tcp", "http"} /\ doc.target = "" THEN {"target"} ELSE {}

\* the type switch of BuildMonitor / BuildMetric
RegisteredTypes(K) == IF K = "monitor" THEN {"tcp", "http"} ELSE {"cpu"}

\* the zero EntityID BuildMonitor / BuildMetric return with an error
NoID == [kind |-> "", instance |-> "", service |-> "", type |-> "", name |-> ""]

\* BuildMonitor / BuildMetric: [err, id]
BuildProbe(K, serviceID, doc) ==
    IF ProbeConfigValid(doc) # {}
    THEN [err |-> NewValidationError(<<serviceID.name, doc.name>>), id |-> NoID]
    ELSE IF doc.type \notin RegisteredTypes(K)
    THEN [err |-> NewValidationError(<<serviceID.name, doc.name>>), id |-> NoID]
    ELSE IF TypeConfigValid(doc) # {}
    THEN [err |-> NewValidationError(<<doc.name>>), id |-> NoID]
    ELSE [err |-> NoError,
          id |-> NewProbeIDFromServiceID(K, serviceID, doc.type, doc.name)]

\* the result map of buildAll: canonical id -> raw config
EmptyMap == [id \in {} |-> X1]

MapPut(m, k, v) == [x \in DOMAIN m \cup {k} |-> IF x = k THEN v ELSE m[x]]

\* ------------------------------------------------------------------------
\* Canonical form of an EntityID. A string of this layer is a sequence of
\* characters; an EntityID is [kind, labels], labels a map from key strings
\* to value strings.
\* ------------------------------------------------------------------------
IDSeparator == "|"

\* EntityID{Kind: "", Labels: {}}
NoEntityID == [kind |-> <<>>, labels |-> <<>>]

\* the characters in byte order
Alphabet ==
    << "1", "=", "a", "b", "c", "d", "e", "f", "g", "h", "i", "j", "k", "l", "m", "n",
       "o", "p", "q", "r", "s", "t", "u", "v", "w", "x", "y", "z", "|" >>

Ord(ch) == CHOOSE i \in DOMAIN Alphabet : Alphabet[i] = ch

\* the characters of the strings the system writes into an ID by itself
Chars(str) ==
    CASE str = "kind" -> <<"k", "i", "n", "d">>
      [] str = "instance" -> <<"i", "n", "s", "t", "a", "n", "c", "e">>
      [] str = "service" -> <<"s", "e", "r", "v", "i", "c", "e">>
      [] str = "type" -> <<"t", "y", "p", "e">>
      [] str = "name" -> <<"n", "a", "m", "e">>
      [] str = "monitor" -> <<"m", "o", "n", "i", "t", "o", "r">>
      [] str = "metric" -> <<"m", "e", "t", "r", "i", "c">>
      [] str = "tcp" -> <<"t", "c", "p">>
      [] str = "http" -> <<"h", "t", "t", "p">>
      [] str = "cpu" -> <<"c", "p", "u">>
      [] str = "i" -> <<"i">>
      [] str = "s1" -> <<"s", "1">>
      [] str = "x" -> <<"x">>
      [] str = "q" -> <<"q">>
      [] str = "x|service=q" ->
             <<"x", "|", "s", "e", "r", "v", "i", "c", "e", "=", "q">>
      [] str = "q|service=s1" ->
             <<"q", "|", "s", "e", "r", "v", "i", "c", "e", "=", "s", "1">>
      [] OTHER -> <<>>

\* the EntityID of NewMonitorID / NewMetricID as kind and label map
EntityIDOf(id) ==
    [kind |-> Chars(id.kind),
     labels |-> [k \in {Chars("instance"), Chars("service"), Chars("type"), Chars("name")} |->
                    IF k = Chars("instance") THEN id.instance
                    ELSE IF k = Chars("service") THEN id.service
                    ELSE IF k = Chars("type") THEN Chars(id.type)
                    ELSE id.name]]

\* a < b as sort.Strings compares
RECURSIVE StrLess(_, _)
StrLess(a, b) ==
    IF b = <<>> THEN FALSE
    ELSE IF a = <<>> THEN TRUE
    ELSE IF Head(a) = Head(b) THEN StrLess(Tail(a), Tail(b))
    ELSE Ord(Head(a)) < Ord(Head(b))

RECURSIVE InsertSorted(_, _)
InsertSorted(k, sorted) ==
    IF sorted = <<>> THEN <<k>>
    ELSE IF StrLess(Head(sorted), k) THEN <<Head(sorted)>> \o InsertSorted(k, Tail(sorted))
    ELSE <<k>> \o sorted

\* sort.Strings
RECURSIVE SortStrings(_)
SortStrings(keys) ==
    IF keys = <<>> THEN <<>> ELSE InsertSorted(Head(keys), SortStrings(Tail(keys)))

\* formatKV
formatKV(key, value) == key \o <<"=">> \o value

\* the loop of Canonical over the sorted keys
RECURSIVE JoinKV(_, _, _)
JoinKV(e, keys, i) ==
    IF i > Len(keys) THEN <<>>
    ELSE (IF i > 1 THEN <<IDSeparator>> ELSE <<>>)
         \o (IF keys[i] = Chars("kind")
             THEN formatKV(keys[i], e.kind)
             ELSE formatKV(keys[i], e.labels[keys[i]]))
         \o JoinKV(e, keys, i + 1)

\* variant: the keys are written in the order the map yields them
CanonicalUnsorted(e, order) == JoinKV(e, order \o <<Chars("kind")>>, 1)

\* EntityID.Canonical; order is the order in which the range over the label
\* map yields its keys
Canonical(e, order) == JoinKV(e, SortStrings(order \o <<Chars("kind")>>), 1)

\* strings.Split
RECURSIVE SplitFrom(_, _, _, _)
SplitFrom(str, sep, done, cur) ==
    IF str = <<>> THEN Append(done, cur)
    ELSE IF Head(str) = sep THEN SplitFrom(Tail(str), sep, Append(done, cur), <<>>)
    ELSE SplitFrom(Tail(str), sep, done, Append(cur, Head(str)))

Split(str, sep) == SplitFrom(str, sep, <<>>, <<>>)

\* the loop of ParseEntityID over the pieces between separators
RECURSIVE ParseLabels(_, _)
ParseLabels(pieces, e) ==
    IF pieces = <<>> THEN e
    ELSE LET kv == Split(Head(pieces), "=") IN
         ParseLabels(Tail(pieces),
                     IF Len(kv) < 2 THEN e
                     ELSE IF kv[1] = Chars("kind") THEN [e EXCEPT !.kind = kv[2]]
                     ELSE [e EXCEPT !.labels = MapPut(@, kv[1], kv[2])])

ParseEntityID(str) ==
    IF str = <<>> THEN NoEntityID
    ELSE ParseLabels(Split(str, IDSeparator), NoEntityID)

\* the orders in which a range over a map with key set S can yield the keys
Orders(S) == {o \in [1..Cardinality(S) -> S] : Range(o) = S}

\* the instance, service and probe names that hold the separator
SeparatorNames == {"x|service=q", "q|service=s1"}

\* the names an ID holding a separator can share its canonical form with
CollidingNames == {"x", "q", "s1"} \cup SeparatorNames

\* id.Canonical() of a probe ID whose names are among CollidingNames
CanonicalOf(id) ==
    Canonical(EntityIDOf([id EXCEPT !.instance = Chars(@), !.service = Chars(@),
                                    !.name = Chars(@)]),
              <<Chars("instance"), Chars("service"), Chars("type"), Chars("name")>>)

\* canon := id.Canonical() in buildAll, the key of the probe maps and of the
\* entity rows. An ID stands for its canonical form: IDs built from names
\* without the separator differ exactly when their canonical forms do; IDs
\* with the same canonical form are one key
CanonicalKey(id) ==
    IF id.name \notin SeparatorNames /\ id.service \notin SeparatorNames
    THEN id
    ELSE CHOOSE r \in {[id EXCEPT !.name = n, !.service = sv] :
                          n \in CollidingNames, sv \in CollidingNames} :
             CanonicalOf(r) = CanonicalOf(id)

\* Service.buildAll, from index i on with the result built so far
RECURSIVE BuildAllFrom(_, _, _, _, _)
BuildAllFrom(K, serviceID, rawConfigs, i, result) ==
    IF i > Len(rawConfigs)
    THEN [err |-> NoError, result |-> result]
    ELSE LET b == BuildProbe(K, serviceID, rawConfigs[i])
             canon == CanonicalKey(b.id) IN
         IF b.err.type = "noname"
         THEN [err |-> SetIndex(b.err, i - 1), result |-> EmptyMap]
         ELSE IF b.err # NoError
         THEN [err |-> b.err, result |-> EmptyMap]
         ELSE IF canon \in DOMAIN result
         THEN [err |-> NewDuplicateFoundError(<<serviceID.name, ToString(i - 1)>>),
               result |-> EmptyMap]
         ELSE BuildAllFrom(K, serviceID, rawConfigs, i + 1,
                           MapPut(result, canon, rawConfigs[i]))

\* variant: a repeated ID overwrites the earlier entry instead of failing
buildAllLastWins(K, serviceID, rawConfigs) ==
    IF \E i \in DOMAIN rawConfigs : BuildProbe(K, serviceID, rawConfigs[i]).err # NoError
    THEN BuildAllFrom(K, serviceID, rawConfigs, 1, EmptyMap)
    ELSE [err |-> NoError,
          result |-> [id \in {BuildProbe(K, serviceID, rawConfigs[i]).id :
                                  i \in DOMAIN rawConfigs} |->
                         rawConfigs[CHOOSE i \in DOMAIN rawConfigs :
                             /\ BuildProbe(K, serviceID, rawConfigs[i]).id = id
                             /\ \A j \in DOMAIN rawConfigs :
                                  BuildProbe(K, serviceID, rawConfigs[j]).id = id => j <= i]]]

buildAll(K, serviceID, rawConfigs) ==
    BuildAllFrom(K, serviceID, rawConfigs, 1, EmptyMap)

\* the probe IDs of kind K derivable from a configuration document
DerivableIDs(cfg, K) ==
    UNION { { NewProbeIDFromServiceID(K, NewServiceID(cfg.name, svc.name), d.type, d.name) :
                d \in Range(RawList(svc, K)) } :
            svc \in {s \in Range(cfg.services) : ListKey(K) \in s.keys} }

\* tick tasks a LoadConfig of cfg can spawn at most
SpawnCount(cfg) ==
    LET n[i \in 0..Len(cfg.services)] ==
          IF i = 0 THEN 0
          ELSE n[i - 1]
               + (IF "monitors" \in cfg.services[i].keys
                  THEN Len(cfg.services[i].monitors) ELSE 0)
               + (IF "metrics" \in cfg.services[i].keys
                  THEN Len(cfg.services[i].metrics) ELSE 0)
    IN n[Len(cfg.services)]

\* a set as a sequence, in an arbitrary fixed order
RECURSIVE SetToSeq(_)
SetToSeq(S) ==
    IF S = {} THEN <<>>
    ELSE LET x == CHOOSE y \in S : TRUE IN <<x>> \o SetToSeq(S \ {x})

\* ------------------------------------------------------------------------
\* State
\* ------------------------------------------------------------------------
VARIABLES
    lmu,            \* Loader.mu: the client holding it, or None
    currentConfig,  \* Loader.currentConfig: <<>> (nil) or <<cfg>>
    calls,          \* per client: the LoadConfig call in progress
    loads,          \* Loader calls (LoadConfig or Stop) started so far
    mu,             \* per scheduler: Service.mu holder, or None
    probes,         \* per scheduler: Service.monitors / Service.metrics
    services,       \* per scheduler: Service.services
    rootDone,       \* per scheduler: Service.ctx cancelled
    wg,             \* per scheduler: Service.wg counter
    tasks,          \* every tick task ever spawned (goroutines of runMonitor / runMetric)
    entities,       \* rows of the entities table, in insertion order
    repoErrors,     \* entity repository failures injected so far
    stopPc,         \* per scheduler: position of the Service.Stop call
    stopCtxDone,    \* a Stop call has seen its ctx expired
    doneClosed,     \* per scheduler: the done channel of Stop is closed
    stopMark,       \* number of tick tasks spawned before Stop was called
    ticksUsed,      \* ticker firings consumed so far
    prev,           \* the last LoadConfig return: <<>> or <<[cfg, snap]>>
    lstop,          \* the Loader.Stop call: its position, and whether its ctx was
                    \* cancelled when it was called
    ident           \* an EntityID on its way through Canonical and ParseEntityID

vars == <<lmu, currentConfig, calls, loads, mu, probes, services, rootDone, wg, tasks,
          entities, repoErrors, stopPc, stopCtxDone, doneClosed, stopMark, ticksUsed, prev,
          lstop, ident>>

loaderVars == <<lmu, currentConfig, calls, loads, prev>>
schedVars == <<mu, probes, services>>
stopVars == <<stopPc, stopCtxDone, doneClosed, stopMark, ticksUsed, lstop, ident>>

\* no EntityID under way
NoIdent == [pc |-> "none", src |-> "none", doc |-> <<>>, x |-> NoEntityID,
            canon |-> <<>>, parsed |-> NoEntityID]

\* no Loader.Stop call yet
IdleStop == [pc |-> "idle", cancelledAtCall |-> FALSE]

IdleCall ==
    [pc |-> "idle", cfg |-> CfgDoc("", <<>>), idx |-> 0, kind |-> "monitor",
     after |-> "", desired |-> EmptyMap, pending |-> {}, removed |-> {},
     err |-> NoError]

EmptyProbes == [id \in {} |-> [task |-> 0, running |-> FALSE, raw |-> X1]]

EmptyServices == [sid \in {} |-> {}]

\* the callers of a behaviour
Clients == DOMAIN calls

Init ==
    /\ lmu = None
    /\ currentConfig = <<>>
    /\ calls = [c \in OneClient |-> IdleCall]
    /\ loads = 0
    /\ mu = [K \in Kinds |-> None]
    /\ probes = [K \in Kinds |-> EmptyProbes]
    /\ services = [K \in Kinds |-> EmptyServices]
    /\ rootDone = [K \in Kinds |-> FALSE]
    /\ wg = [K \in Kinds |-> 0]
    /\ tasks = <<>>
    /\ entities = <<>>
    /\ repoErrors = 0
    /\ stopPc = [K \in Kinds |-> "idle"]
    /\ stopCtxDone = FALSE
    /\ doneClosed = [K \in Kinds |-> FALSE]
    /\ stopMark = 0
    /\ prev = <<>>
    /\ ticksUsed = 0
    /\ lstop = IdleStop
    /\ ident = NoIdent

\* ------------------------------------------------------------------------
\* Contexts and tick tasks
\* ------------------------------------------------------------------------
TaskIds == DOMAIN tasks

\* inst.ctx.Done(): the instance context is a child of its parent
CtxDone(t) ==
    \/ tasks[t].cancelled
    \/ tasks[t].parent = "root" /\ rootDone[tasks[t].kind]

Alive(t) == tasks[t].pc # "done"

\* the probe of task t was removed by a LoadService that has returned, or the
\* Stop of its scheduler has returned
Retired(t) ==
    LET K == tasks[t].kind
        id == tasks[t].id IN
    \/ /\ id \notin DOMAIN probes[K]
       /\ ~\E c \in Clients : /\ calls[c].pc = "ls_ret"
                               /\ calls[c].kind = K
                               /\ id \in calls[c].removed
    \/ stopPc[K] \in {"ret_nil", "ret_err"}

\* the IDs whose instance has running = true
RunningIDs(K) == {id \in DOMAIN probes[K] : probes[K][id].running}

\* rows of the entities table with this canonical id
EntityRows(id) == {i \in DOMAIN entities : entities[i] = id}

\* ------------------------------------------------------------------------
\* Scheduler: the pieces of Service.LoadService
\* ------------------------------------------------------------------------
\* variant: the insert on ErrIDNotFound is left out
GetOrInsertEntityNever(rows, id) == rows

\* variant: the row is inserted without the lookup
GetOrInsertEntityAlways(rows, id) == Append(rows, id)

\* "Ensure entities exist in database": GetID, and InsertEntity on ErrIDNotFound
GetOrInsertEntity(rows, id) ==
    IF \E i \in DOMAIN rows : rows[i] = id THEN rows ELSE Append(rows, id)

\* the ServiceInstance.MonitorIDs (MetricIDs) of a service, {} when it has no entry
EntryIDs(K, sid) == IF sid \in DOMAIN services[K] THEN services[K][sid] ELSE {}

\* variant: the removal loop finds nothing to remove
RemovedIDsNone(entry, desired) == {}

\* "Remove monitors that are no longer in config": the IDs of the old entry
\* that the new map lacks
RemovedIDs(entry, desired) == {id \in entry : id \notin DOMAIN desired}

\* stopInstanceUnsynced over a set of IDs: the tick tasks whose context is
\* cancelled (those of the instances that are running)
StopTargets(K, ids) ==
    {probes[K][id].task : id \in {i \in ids \cap DOMAIN probes[K] : probes[K][i].running}}

\* inst.cancel() on every task of the set
CancelTasks(ts, targets) ==
    [t \in DOMAIN ts |-> IF t \in targets THEN [ts[t] EXCEPT !.cancelled = TRUE] ELSE ts[t]]

\* no heartbeat: the local variable of runMonitor outside InsertHeartbeat
NoHeartbeat == [monitorID |-> NoID, error |-> "none"]

\* variant: the heartbeat does not carry Run's error
NewHeartbeatNoError(monitorID, err) == [monitorID |-> monitorID, error |-> "nil"]

\* NewHeartbeat(inst.ID.Canonical(), time.Now(), err): the timestamp is left out
NewHeartbeat(monitorID, err) == [monitorID |-> monitorID, error |-> err]

\* Heartbeat.IsSuccessful: h.Error == nil
IsSuccessful(h) == h.error = "nil"

\* context.WithCancel(s.ctx) and the goroutine of startInstanceUnsynced, up to
\* its select: time.NewTicker panics when the period is not positive
NewTask(K, id, cfg) ==
    [kind |-> K, id |-> id, parent |-> "root", cancelled |-> FALSE,
     pc |-> IF cfg.interval > 0 THEN "select" ELSE "panicked",
     ticker |-> cfg.interval > 0, rows |-> 0, hb |-> NoHeartbeat]

\* variant: startInstanceUnsynced does not set running
NewInstanceNotRunning(t, raw) == [task |-> t, running |-> FALSE, raw |-> raw]

\* s.monitors[id] = inst; startInstanceUnsynced sets running
NewInstance(t, raw) == [task |-> t, running |-> TRUE, raw |-> raw]

\* the map of the scheduler after the removal loop and the update-or-add loop;
\* order is the sequence in which the new map is iterated, base the number of
\* tasks spawned before
AppliedProbes(K, removedIDs, desired, order, base) ==
    [id \in (DOMAIN probes[K] \ removedIDs) \cup DOMAIN desired |->
        IF id \in DOMAIN desired
        THEN NewInstance(base + (CHOOSE i \in DOMAIN order : order[i] = id), desired[id])
        ELSE probes[K][id]]

\* "Update service instance"
NewServiceInstance(desired) == DOMAIN desired

\* ------------------------------------------------------------------------
\* Loader.LoadConfig, one step per suspension point
\* ------------------------------------------------------------------------
SetCall(c, r) == calls' = [calls EXCEPT ![c] = r]

\* what GetConfig returns and the schedulers hold, as compared across reloads
Snapshot ==
    [running |-> [K \in Kinds |-> RunningIDs(K)],
     services |-> services,
     entities |-> entities,
     config |-> currentConfig]

\* lines 52-56: store the raw bytes as the current config
StoreConfig(cfg) == <<cfg>>

\* variant: l.mu.Lock() never blocks
LoaderMuFreeAlways == TRUE

\* l.mu.Lock() returns at once: no call holds the loader mutex
LoaderMuFree == lmu = None

\* lines 36-56: parse and validate with no lock held, then take the loader
\* mutex and store the config; while another call holds the mutex the call
\* blocks in l.mu.Lock()
LoadConfigCall(c, cfg) ==
    /\ calls[c].pc = "idle"
    /\ loads < MaxLoads
    /\ Len(tasks) + SpawnCount(cfg) <= MaxTasks
    /\ loads' = loads + 1
    /\ IF ~cfg.parses
       THEN /\ SetCall(c, [IdleCall EXCEPT !.pc = "lc_ret", !.cfg = cfg,
                                             !.err = ParseError])
            /\ UNCHANGED <<lmu, currentConfig>>
       ELSE IF InstanceConfigValid(cfg) # {}
       THEN /\ SetCall(c, [IdleCall EXCEPT !.pc = "lc_ret", !.cfg = cfg,
                                             !.err = NewValidationError(<<cfg.name>>)])
            /\ UNCHANGED <<lmu, currentConfig>>
       ELSE IF LoaderMuFree
       THEN /\ lmu' = c
            /\ currentConfig' = StoreConfig(cfg)
            /\ SetCall(c, [IdleCall EXCEPT !.pc = "lc_svc", !.cfg = cfg, !.idx = 1])
       ELSE /\ SetCall(c, [IdleCall EXCEPT !.pc = "lc_lock", !.cfg = cfg])
            /\ UNCHANGED <<lmu, currentConfig>>
    /\ UNCHANGED <<prev, schedVars, rootDone, wg, tasks, entities, repoErrors, stopVars>>

\* lines 52-56: a call blocked in l.mu.Lock() gets the mutex and stores the
\* config
LoadConfigLock(c) ==
    /\ calls[c].pc = "lc_lock"
    /\ LoaderMuFree
    /\ lmu' = c
    /\ currentConfig' = StoreConfig(calls[c].cfg)
    /\ SetCall(c, [calls[c] EXCEPT !.pc = "lc_svc", !.idx = 1])
    /\ UNCHANGED <<loads, prev, schedVars, rootDone, wg, tasks, entities, repoErrors,
                   stopVars>>

\* GetConfig returns v: the read lock is free of writers
GetConfigReturns(v) ==
    /\ lmu = None
    /\ v = currentConfig

\* variant: the metrics of a service are loaded before its monitors
NextKindMetricsFirst(svc, after) ==
    IF after = "" /\ "metrics" \in svc.keys THEN "metric"
    ELSE IF after \in {"", "metric"} /\ "monitors" \in svc.keys THEN "monitor"
    ELSE None

\* the scheduler LoadService is called for next, after `after` ("" or a kind)
NextKind(svc, after) ==
    IF after = "" /\ "monitors" \in svc.keys THEN "monitor"
    ELSE IF after \in {"", "monitor"} /\ "metrics" \in svc.keys THEN "metric"
    ELSE None

\* the service ID and raw list of the LoadService call of a LoadConfig call
CallServiceID(r) == NewServiceID(r.cfg.name, r.cfg.services[r.idx].name)
CallRawList(r, K) == RawList(r.cfg.services[r.idx], K)

\* LoadService lines 110-120: lock the scheduler mutex, buildAll
LoadServiceBegin(c, K) ==
    LET r == calls[c]
        b == buildAll(K, CallServiceID(r), CallRawList(r, K)) IN
    /\ mu[K] = None
    /\ mu' = [mu EXCEPT ![K] = c]
    /\ IF b.err # NoError
       THEN SetCall(c, [r EXCEPT !.pc = "ls_ret", !.kind = K, !.err = b.err,
                                  !.desired = EmptyMap, !.pending = {}, !.removed = {}])
       ELSE SetCall(c, [r EXCEPT !.pc = "ls_ent", !.kind = K, !.err = NoError,
                                  !.desired = b.result, !.pending = DOMAIN b.result,
                                  !.removed = {}])

\* lines 58-126: the loop over the services; a service without a name ends
\* the call, a list under "monitors" / "metrics" is handed to its scheduler
LoadConfigService(c) ==
    LET r == calls[c] IN
    /\ r.pc = "lc_svc"
    /\ IF r.idx > Len(r.cfg.services)
       THEN /\ SetCall(c, [r EXCEPT !.pc = "lc_ret", !.err = NoError])
            /\ UNCHANGED mu
       ELSE LET svc == r.cfg.services[r.idx] IN
            IF ~svc.hasName
            THEN /\ SetCall(c, [r EXCEPT !.pc = "lc_ret",
                      !.err = SetIndex(NewNoNameError(<<r.cfg.name>>), r.idx - 1)])
                 /\ UNCHANGED mu
            ELSE IF NextKind(svc, r.after) = None
            THEN /\ SetCall(c, [r EXCEPT !.idx = r.idx + 1, !.after = ""])
                 /\ UNCHANGED mu
            ELSE LoadServiceBegin(c, NextKind(svc, r.after))
    /\ UNCHANGED <<lmu, currentConfig, loads, prev, probes, services, rootDone, wg, tasks,
                   entities, repoErrors, stopVars>>

\* LoadService lines 122-136, one desired ID at a time; the repository may fail
LoadServiceEntity(c) ==
    LET r == calls[c] IN
    /\ r.pc = "ls_ent"
    /\ \E id \in r.pending :
         \/ /\ entities' = GetOrInsertEntity(entities, id)
            /\ SetCall(c, [r EXCEPT !.pending = @ \ {id}])
            /\ UNCHANGED repoErrors
         \/ /\ repoErrors < MaxRepoErrors
            /\ repoErrors' = repoErrors + 1
            /\ SetCall(c, [r EXCEPT !.pc = "ls_ret", !.err = RepoError])
            /\ UNCHANGED entities
    /\ UNCHANGED <<lmu, currentConfig, loads, prev, schedVars, rootDone, wg, tasks,
                   stopVars>>

\* variant: the lists are applied before a repository failure ends the call
LoadServiceApplyThenFail(c) ==
    LET r == calls[c]
        K == r.kind
        sid == CallServiceID(r)
        removedIDs == RemovedIDs(EntryIDs(K, sid), r.desired)
        removedTasks == StopTargets(K, removedIDs)
        order == SetToSeq(DOMAIN r.desired)
        base == Len(tasks)
        restarted == StopTargets(K, DOMAIN r.desired)
        spawned == [i \in DOMAIN order |-> NewTask(K, order[i], r.desired[order[i]])] IN
    /\ r.pc = "ls_ent"
    /\ r.pending = {}
    /\ tasks' = CancelTasks(tasks, removedTasks \cup restarted) \o spawned
    /\ probes' = [probes EXCEPT ![K] = AppliedProbes(K, removedIDs, r.desired, order, base)]
    /\ wg' = [wg EXCEPT ![K] = @ + Len(order)]
    /\ services' = [services EXCEPT ![K] =
                      [s \in DOMAIN @ \cup {sid} |->
                          IF s = sid THEN NewServiceInstance(r.desired) ELSE @[s]]]
    /\ SetCall(c, [r EXCEPT !.pc = "ls_ret", !.err = RepoError, !.removed = removedIDs])
    /\ UNCHANGED <<lmu, currentConfig, loads, prev, mu, rootDone, entities, repoErrors,
                   stopVars>>

\* LoadService lines 138-173: removal loop, update-or-add loop, service entry
LoadServiceApply(c) ==
    LET r == calls[c]
        K == r.kind
        sid == CallServiceID(r)
        removedIDs == RemovedIDs(EntryIDs(K, sid), r.desired)
        removedTasks == StopTargets(K, removedIDs)
        order == SetToSeq(DOMAIN r.desired)
        base == Len(tasks)
        restarted == StopTargets(K, DOMAIN r.desired)
        spawned == [i \in DOMAIN order |-> NewTask(K, order[i], r.desired[order[i]])] IN
    /\ r.pc = "ls_ent"
    /\ r.pending = {}
    /\ tasks' = CancelTasks(tasks, removedTasks \cup restarted) \o spawned
    /\ probes' = [probes EXCEPT ![K] = AppliedProbes(K, removedIDs, r.desired, order, base)]
    /\ wg' = [wg EXCEPT ![K] = @ + Len(order)]
    /\ services' = [services EXCEPT ![K] =
                      [s \in DOMAIN @ \cup {sid} |->
                          IF s = sid THEN NewServiceInstance(r.desired) ELSE @[s]]]
    /\ SetCall(c, [r EXCEPT !.pc = "ls_ret", !.err = NoError, !.removed = removedIDs])
    /\ UNCHANGED <<lmu, currentConfig, loads, prev, mu, rootDone, entities, repoErrors,
                   stopVars>>

\* variant: LoadService returns with the scheduler mutex still locked
LoadServiceReturnLocked(c) ==
    LET r == calls[c]
        K == r.kind IN
    /\ r.pc = "ls_ret"
    /\ UNCHANGED mu
    /\ IF r.err # NoError
       THEN SetCall(c, [r EXCEPT !.pc = "lc_ret",
                          !.err = IF IsConfigError(r.err)
                                  THEN PrependPath(r.err, r.cfg.name) ELSE r.err])
       ELSE SetCall(c, [r EXCEPT !.pc = "lc_svc", !.after = K, !.desired = EmptyMap,
                                  !.removed = {}])
    /\ UNCHANGED <<lmu, currentConfig, loads, prev, probes, services, rootDone, wg, tasks,
                   entities, repoErrors, stopVars>>

\* LoadService returns (deferred Unlock); LoadConfig lines 94-104 and 115-125
LoadServiceReturn(c) ==
    LET r == calls[c]
        K == r.kind IN
    /\ r.pc = "ls_ret"
    /\ mu' = [mu EXCEPT ![K] = None]
    /\ IF r.err # NoError
       THEN SetCall(c, [r EXCEPT !.pc = "lc_ret",
                          !.err = IF IsConfigError(r.err)
                                  THEN PrependPath(r.err, r.cfg.name) ELSE r.err])
       ELSE SetCall(c, [r EXCEPT !.pc = "lc_svc", !.after = K, !.desired = EmptyMap,
                                  !.removed = {}])
    /\ UNCHANGED <<lmu, currentConfig, loads, prev, probes, services, rootDone, wg, tasks,
                   entities, repoErrors, stopVars>>

\* LoadConfig returns (deferred Unlock when the mutex was taken)
LoadConfigReturn(c) ==
    LET r == calls[c] IN
    /\ r.pc = "lc_ret"
    /\ lmu' = IF lmu = c THEN None ELSE lmu
    /\ prev' = IF r.err = NoError THEN <<[cfg |-> r.cfg, snap |-> Snapshot]>> ELSE <<>>
    /\ SetCall(c, IdleCall)
    /\ UNCHANGED <<currentConfig, loads, schedVars, rootDone, wg, tasks, entities,
                   repoErrors, stopVars>>

\* ------------------------------------------------------------------------
\* Tick tasks: Service.runMonitor / Service.runMetric
\* ------------------------------------------------------------------------
SetTask(t, r) == tasks' = [tasks EXCEPT ![t] = r]

taskFrame == <<loaderVars, schedVars, rootDone, entities, repoErrors, stopPc, stopCtxDone,
              doneClosed, stopMark, lstop, ident>>

\* variant: a firing of the ticker starts a Run whatever the task is doing
TaskTickUnawaited(t, budget) ==
    /\ tasks[t].pc \in {"select", "run", "write", "insert"}
    /\ ticksUsed < budget
    /\ ticksUsed' = ticksUsed + 1
    /\ SetTask(t, [tasks[t] EXCEPT !.pc = "run", !.hb = NoHeartbeat])
    /\ UNCHANGED <<taskFrame, wg>>

\* select: case <-ticker.C (Go picks among the ready cases at random, so the
\* ticker case can be taken while the context is done)
TaskTickWithin(t, budget) ==
    /\ tasks[t].pc = "select"
    /\ ticksUsed < budget
    /\ ticksUsed' = ticksUsed + 1
    /\ SetTask(t, [tasks[t] EXCEPT !.pc = "run"])
    /\ UNCHANGED <<taskFrame, wg>>

TaskTick(t) == TaskTickWithin(t, MaxTicks)

\* select: case <-inst.ctx.Done(): return, then s.wg.Done()
TaskExit(t) ==
    /\ tasks[t].pc = "select"
    /\ CtxDone(t)
    /\ SetTask(t, [tasks[t] EXCEPT !.pc = "done"])
    /\ wg' = [wg EXCEPT ![tasks[t].kind] = @ - 1]
    /\ UNCHANGED <<taskFrame, ticksUsed>>

\* what a Run in flight can return: the cancellation error only when the
\* context is done; a Run that raced with the cancellation returns its result
RunResults(t) == {"nil", "err"} \cup (IF CtxDone(t) THEN {"canceled"} ELSE {})

\* a query of the repository under ctx starts only when ctx is not done, and
\* GetEntityID finds the row only when the entity is registered
QueryStarts(t) == ~CtxDone(t) /\ EntityRows(tasks[t].id) # {}

\* variant: the cancellation error is treated like any other result
SkipsNothing(result) == result = "skip"

\* runMonitor lines 259-267: Run returns; errors.Is(err, context.Canceled)
\* skips the outcome, anything else goes to InsertHeartbeat(inst.ctx, ...)
SkipsOutcome(result) == result = "canceled"

\* runMonitor lines 259-269 for one result of Run: a skipped outcome ends the
\* tick; otherwise the heartbeat is built and InsertHeartbeat(inst.ctx, ...) is
\* called, whose insert begins ("write") or which fails before it ("insert")
MonitorRunReturns(t, result) ==
    /\ tasks[t].pc = "run"
    /\ tasks[t].kind = "monitor"
    /\ result \in RunResults(t)
    /\ IF SkipsOutcome(result)
       THEN SetTask(t, [tasks[t] EXCEPT !.pc = "select"])
       ELSE IF QueryStarts(t)
       THEN SetTask(t, [tasks[t] EXCEPT !.pc = "write",
                                        !.hb = NewHeartbeat(tasks[t].id, result)])
       ELSE SetTask(t, [tasks[t] EXCEPT !.pc = "insert",
                                        !.hb = NewHeartbeat(tasks[t].id, result)])
    /\ UNCHANGED <<taskFrame, wg, ticksUsed>>

MonitorRunReturn(t) == \E result \in {"nil", "err", "canceled"} : MonitorRunReturns(t, result)

\* the Run of a monitor whose target answers: nil, or the cancellation error
MonitorRunAnswers(t) == \E result \in {"nil", "canceled"} : MonitorRunReturns(t, result)

\* CPUMetrics.Run for one result of ReadLoadAvg: an error is returned at
\* once; otherwise sink.Emit(ctx, sample), whose error Run returns; runMetric
\* only consumes it
MetricRunReturns(t, read) ==
    /\ tasks[t].pc = "run"
    /\ tasks[t].kind = "metric"
    /\ IF read = "err" \/ ~QueryStarts(t)
       THEN SetTask(t, [tasks[t] EXCEPT !.pc = "select"])
       ELSE SetTask(t, [tasks[t] EXCEPT !.pc = "write"])
    /\ UNCHANGED <<taskFrame, wg, ticksUsed>>

MetricRunReturn(t) == \E read \in {"ok", "err"} : MetricRunReturns(t, read)

\* variant: a failed write ends the tick task
WriteReturnFatal(t) ==
    /\ tasks[t].pc \in {"write", "insert"}
    /\ \E written \in {w \in BOOLEAN : w => tasks[t].pc = "write"} :
         IF written
         THEN /\ SetTask(t, [tasks[t] EXCEPT !.pc = "select", !.rows = @ + 1,
                                             !.hb = NoHeartbeat])
              /\ wg' = wg
         ELSE /\ SetTask(t, [tasks[t] EXCEPT !.pc = "done", !.hb = NoHeartbeat])
              /\ wg' = [wg EXCEPT ![tasks[t].kind] = @ - 1]
    /\ UNCHANGED <<taskFrame, ticksUsed>>

\* the insert of InsertHeartbeat / InsertSample returns: the row is written,
\* or the repository failed (logged and dropped)
WriteReturn(t) ==
    /\ tasks[t].pc \in {"write", "insert"}
    /\ \E written \in {w \in BOOLEAN : w => tasks[t].pc = "write"} :
         SetTask(t, [tasks[t] EXCEPT !.pc = "select",
                                     !.rows = IF written THEN @ + 1 ELSE @,
                                     !.hb = NoHeartbeat])
    /\ UNCHANGED <<taskFrame, wg, ticksUsed>>

\* Run panics: neither runMonitor / runMetric nor the goroutine of
\* startInstanceUnsynced recovers, and s.wg.Done() is not deferred
RunPanics(t) ==
    /\ tasks[t].pc = "run"
    /\ SetTask(t, [tasks[t] EXCEPT !.pc = "panicked"])
    /\ UNCHANGED <<taskFrame, wg, ticksUsed>>

\* a goroutine has panicked and nothing recovered: the process is gone
Crashed == \E t \in DOMAIN tasks : tasks[t].pc = "panicked"

\* ------------------------------------------------------------------------
\* Service.Stop of both schedulers, started by Loader.Stop
\* ------------------------------------------------------------------------
stopFrame == <<lmu, currentConfig, calls, prev, schedVars, tasks, wg, entities, repoErrors,
               ticksUsed, ident>>

\* the Stop call of scheduler K has returned
StopReturned(K) == stopPc[K] \in {"ret_nil", "ret_err"}

\* Loader.Stop lines 145-167: one goroutine per scheduler calls Stop(ctx)
LoaderStop ==
    /\ \A K \in Kinds : stopPc[K] = "idle"
    /\ loads < MaxLoads
    /\ loads' = loads + 1
    /\ stopPc' = [K \in Kinds |-> "called"]
    /\ stopCtxDone' = FALSE
    /\ stopMark' = Len(tasks)
    /\ lstop' = [pc |-> "spawned", cancelledAtCall |-> FALSE]
    /\ UNCHANGED <<stopFrame, rootDone, doneClosed>>

\* Loader.Stop called with a ctx that is already cancelled
LoaderStopCancelled ==
    /\ \A K \in Kinds : stopPc[K] = "idle"
    /\ loads < MaxLoads
    /\ loads' = loads + 1
    /\ stopPc' = [K \in Kinds |-> "called"]
    /\ stopCtxDone' = TRUE
    /\ stopMark' = Len(tasks)
    /\ lstop' = [pc |-> "spawned", cancelledAtCall |-> TRUE]
    /\ UNCHANGED <<stopFrame, rootDone, doneClosed>>

\* variant: Stop goes on to wait without cancelling the root context
StopCancelNoSignal(K) ==
    /\ stopPc[K] = "called"
    /\ stopPc' = [stopPc EXCEPT ![K] = "waiting"]
    /\ UNCHANGED <<stopFrame, loads, rootDone, stopCtxDone, doneClosed, stopMark, lstop>>

\* the caller of Service.Stop, as a holder of Service.mu (Stop never locks it)
Stopper == "stop"

\* Service.Stop line 181: the Stop of the monitoring scheduler evaluates
\* len(s.monitors) for its log line; the Stop of the metrics scheduler reads
\* neither map
StopReadsProbes(K) == K = "monitor"

\* Service.Stop lines 181-182: the log line, then s.cancel()
StopCancel(K) ==
    /\ stopPc[K] = "called"
    /\ rootDone' = [rootDone EXCEPT ![K] = TRUE]
    /\ stopPc' = [stopPc EXCEPT ![K] = "waiting"]
    /\ UNCHANGED <<stopFrame, loads, stopCtxDone, doneClosed, stopMark, lstop>>

\* variant: the wait does not block
WaitReturnsAtOnce(K) == wg[K] >= 0

\* s.wg.Wait() returns
WaitReturns(K) == wg[K] = 0

\* Service.Stop lines 185-188: the goroutine closing done after s.wg.Wait()
StopWaitDone(K) ==
    /\ stopPc[K] = "waiting"
    /\ ~doneClosed[K]
    /\ WaitReturns(K)
    /\ doneClosed' = [doneClosed EXCEPT ![K] = TRUE]
    /\ UNCHANGED <<stopFrame, loads, rootDone, stopPc, stopCtxDone, stopMark, lstop>>

\* Service.Stop lines 190-197: the select; ctx can expire at any time, and
\* its case is taken once it has
StopReturn(K) ==
    /\ stopPc[K] = "waiting"
    /\ \/ /\ stopCtxDone' = TRUE
          /\ stopPc' = [stopPc EXCEPT ![K] = "ret_err"]
       \/ /\ doneClosed[K]
          /\ stopPc' = [stopPc EXCEPT ![K] = "ret_nil"]
          /\ UNCHANGED stopCtxDone
    /\ UNCHANGED <<stopFrame, loads, rootDone, doneClosed, stopMark, lstop>>

\* Loader.Stop lines 174-184, the select as the caller first reaches it. The
\* ready cases are ctx.Done() (ctx is done, or expires now), errChan (a
\* scheduler Stop returned an error) and done (both scheduler Stops have
\* returned); select takes any ready case, and blocks when there is none.
\* Both ctx.Err() and the error of a scheduler Stop are the error of ctx.
LoaderStopSelect ==
    /\ lstop.pc = "spawned"
    /\ \/ /\ stopCtxDone' = TRUE
          /\ lstop' = [lstop EXCEPT !.pc = "ret_err"]
       \/ /\ \E K \in Kinds : stopPc[K] = "ret_err"
          /\ lstop' = [lstop EXCEPT !.pc = "ret_err"]
          /\ UNCHANGED stopCtxDone
       \/ /\ \A K \in Kinds : StopReturned(K)
          /\ lstop' = [lstop EXCEPT !.pc = "ret_nil"]
          /\ UNCHANGED stopCtxDone
       \/ /\ ~stopCtxDone
          /\ \E K \in Kinds : ~StopReturned(K)
          /\ lstop' = [lstop EXCEPT !.pc = "blocked"]
          /\ UNCHANGED stopCtxDone
    /\ UNCHANGED <<stopFrame, loads, rootDone, stopPc, doneClosed, stopMark>>

\* Loader.Stop lines 174-184, the blocked select is woken by the case that
\* becomes ready first: ctx expires, or both scheduler Stops have returned
\* nil (a scheduler Stop returns an error only once ctx is done)
LoaderStopWake ==
    /\ lstop.pc = "blocked"
    /\ \/ /\ stopCtxDone' = TRUE
          /\ lstop' = [lstop EXCEPT !.pc = "ret_err"]
       \/ /\ ~stopCtxDone
          /\ \A K \in Kinds : stopPc[K] = "ret_nil"
          /\ lstop' = [lstop EXCEPT !.pc = "ret_nil"]
          /\ UNCHANGED stopCtxDone
    /\ UNCHANGED <<stopFrame, loads, rootDone, stopPc, doneClosed, stopMark>>

\* ------------------------------------------------------------------------
\* Specification: the documents of Configs, monitors whose targets answer
\* ------------------------------------------------------------------------
Next ==
    \/ \E c \in Clients, cfg \in Configs : LoadConfigCall(c, cfg)
    \/ \E c \in Clients : LoadConfigService(c)
    \/ \E c \in Clients : LoadServiceEntity(c)
    \/ \E c \in Clients : LoadServiceApply(c)
    \/ \E c \in Clients : LoadServiceReturn(c)
    \/ \E c \in Clients : LoadConfigReturn(c)
    \/ \E t \in TaskIds : TaskTick(t)
    \/ \E t \in TaskIds : TaskExit(t)
    \/ \E t \in TaskIds : MonitorRunAnswers(t)
    \/ \E t \in TaskIds : MetricRunReturn(t)
    \/ \E t \in TaskIds : WriteReturn(t)
    \/ LoaderStop
    \/ \E K \in Kinds : StopCancel(K)
    \/ \E K \in Kinds : StopWaitDone(K)
    \/ \E K \in Kinds : StopReturn(K)

Spec == Init /\ [][Next]_vars

\* one caller reloading the documents of DocConfigs, the schedulers never
\* stopped
NextDocs ==
    \/ \E c \in Clients, cfg \in DocConfigs : LoadConfigCall(c, cfg)
    \/ \E c \in Clients : LoadConfigService(c)
    \/ \E c \in Clients : LoadServiceEntity(c)
    \/ \E c \in Clients : LoadServiceApply(c)
    \/ \E c \in Clients : LoadServiceReturn(c)
    \/ \E c \in Clients : LoadConfigReturn(c)
    \/ \E t \in TaskIds : TaskTick(t)
    \/ \E t \in TaskIds : TaskExit(t)
    \/ \E t \in TaskIds : MonitorRunReturn(t)
    \/ \E t \in TaskIds : MetricRunReturn(t)
    \/ \E t \in TaskIds : WriteReturn(t)

SpecDocs == Init /\ [][NextDocs]_vars

\* one caller reloading the documents of TickConfigs, each ticker firing up to
\* TickBudget times in all
TickBudget == MaxTicks + 1

TickConfigs ==
    { CfgDoc("i", << SvcDoc(TRUE, "s1", {"monitors"}, <<X1>>, <<>>) >>),
      CfgDoc("i", << SvcDoc(TRUE, "s1", {"monitors"}, <<X1, Y1>>, <<>>) >>),
      CfgDoc("i", << SvcDoc(TRUE, "s2", {"metrics"}, <<>>, <<M1>>) >>) }

NextTicks ==
    \/ \E c \in Clients, cfg \in TickConfigs : LoadConfigCall(c, cfg)
    \/ \E c \in Clients : LoadConfigService(c)
    \/ \E c \in Clients : LoadServiceEntity(c)
    \/ \E c \in Clients : LoadServiceApply(c)
    \/ \E c \in Clients : LoadServiceReturn(c)
    \/ \E c \in Clients : LoadConfigReturn(c)
    \/ \E t \in TaskIds : TaskTickWithin(t, TickBudget)
    \/ \E t \in TaskIds : TaskExit(t)
    \/ \E t \in TaskIds : MonitorRunReturn(t)
    \/ \E t \in TaskIds : MetricRunReturn(t)
    \/ \E t \in TaskIds : WriteReturn(t)

SpecTicks == Init /\ [][NextTicks]_vars

\* one caller reloading documents whose service and probe names hold the
\* separator of the canonical form
XQ == Doc("x|service=q", "tcp", 1)

SeparatorConfigs ==
    { CfgDoc("i", << SvcDoc(TRUE, "q|service=s1", {"monitors"}, <<X1>>, <<>>) >>),
      CfgDoc("i", << SvcDoc(TRUE, "s1", {"monitors"}, <<XQ>>, <<>>) >>),
      CfgDoc("i", << SvcDoc(TRUE, "q|service=s1", {"monitors"}, <<X1>>, <<>>),
                     SvcDoc(TRUE, "s1", {"monitors"}, <<XQ>>, <<>>) >>) }

NextSeparator ==
    \/ \E c \in Clients, cfg \in SeparatorConfigs : LoadConfigCall(c, cfg)
    \/ \E c \in Clients : LoadConfigService(c)
    \/ \E c \in Clients : LoadServiceEntity(c)
    \/ \E c \in Clients : LoadServiceApply(c)
    \/ \E c \in Clients : LoadServiceReturn(c)
    \/ \E c \in Clients : LoadConfigReturn(c)
    \/ \E t \in TaskIds : TaskTick(t)
    \/ \E t \in TaskIds : TaskExit(t)
    \/ \E t \in TaskIds : MonitorRunReturn(t)
    \/ \E t \in TaskIds : WriteReturn(t)

SpecSeparator == Init /\ [][NextSeparator]_vars

\* two callers of LoadConfig at once
ConcConfigs ==
    { CfgDoc("i", << SvcDoc(TRUE, "s1", {"monitors"}, <<X1>>, <<>>) >>),
      CfgDoc("i", << SvcDoc(TRUE, "s1", {"monitors"}, <<X2>>, <<>>) >>),
      CfgDoc("i", << SvcDoc(TRUE, "s2", {"metrics"}, <<>>, <<M1>>) >>),
      CfgDoc("i", << SvcDoc(TRUE, "s1", {"monitors"}, <<BadType>>, <<>>) >>),
      CfgDoc("i", << >>) }

InitConc ==
    /\ lmu = None
    /\ currentConfig = <<>>
    /\ calls = [c \in TwoClients |-> IdleCall]
    /\ loads = 0
    /\ mu = [K \in Kinds |-> None]
    /\ probes = [K \in Kinds |-> EmptyProbes]
    /\ services = [K \in Kinds |-> EmptyServices]
    /\ rootDone = [K \in Kinds |-> FALSE]
    /\ wg = [K \in Kinds |-> 0]
    /\ tasks = <<>>
    /\ entities = <<>>
    /\ repoErrors = 0
    /\ stopPc = [K \in Kinds |-> "idle"]
    /\ stopCtxDone = FALSE
    /\ doneClosed = [K \in Kinds |-> FALSE]
    /\ stopMark = 0
    /\ prev = <<>>
    /\ ticksUsed = 0
    /\ lstop = IdleStop
    /\ ident = NoIdent

NextConc ==
    \/ \E c \in Clients, cfg \in ConcConfigs : LoadConfigCall(c, cfg)
    \/ \E c \in Clients : LoadConfigLock(c)
    \/ \E c \in Clients : LoadConfigService(c)
    \/ \E c \in Clients : LoadServiceEntity(c)
    \/ \E c \in Clients : LoadServiceApply(c)
    \/ \E c \in Clients : LoadServiceReturn(c)
    \/ \E c \in Clients : LoadConfigReturn(c)
    \/ \E t \in TaskIds : TaskTick(t)
    \/ \E t \in TaskIds : TaskExit(t)
    \/ \E t \in TaskIds : MonitorRunReturn(t)
    \/ \E t \in TaskIds : MetricRunReturn(t)
    \/ \E t \in TaskIds : WriteReturn(t)

SpecConc == InitConc /\ [][NextConc]_vars

\* EntityIDs through Canonical and ParseEntityID: any kind and label map of a
\* small universe, or the ID of a monitor document that the loader accepts
MaxValueLen == 2

ValueChars == {"a", "|", "="}

\* the strings over ValueChars of length at most n
StringsUpTo(n) == UNION {[1..m -> ValueChars] : m \in 0..n}

LabelKeys == {Chars("name"), Chars("type"), Chars("kind")}

\* the label maps over the keys S: the name ranges over the strings up to
\* MaxValueLen, the other values over the strings of at most one character
LabelMaps(S) ==
    { [k \in S |-> IF k = Chars("name") THEN n ELSE IF k = Chars("type") THEN ty ELSE kd] :
        n \in StringsUpTo(MaxValueLen), ty \in StringsUpTo(1), kd \in StringsUpTo(1) }

EntityIDs ==
    UNION { {[kind |-> k, labels |-> l] : k \in {Chars("monitor"), Chars("service")},
                                           l \in LabelMaps(S)} :
            S \in SUBSET LabelKeys }

\* instance name, service name, and name and type of a monitor document
IDDocs ==
    [instance : {<<>>, <<"a">>},
     service : {<<>>, <<"a">>, <<"a", "|">>},
     name : StringsUpTo(MaxValueLen),
     type : {"tcp", "cpu", ""}]

InitID ==
    /\ lmu = None
    /\ currentConfig = <<>>
    /\ calls = [c \in OneClient |-> IdleCall]
    /\ loads = 0
    /\ mu = [K \in Kinds |-> None]
    /\ probes = [K \in Kinds |-> EmptyProbes]
    /\ services = [K \in Kinds |-> EmptyServices]
    /\ rootDone = [K \in Kinds |-> FALSE]
    /\ wg = [K \in Kinds |-> 0]
    /\ tasks = <<>>
    /\ entities = <<>>
    /\ repoErrors = 0
    /\ stopPc = [K \in Kinds |-> "idle"]
    /\ stopCtxDone = FALSE
    /\ doneClosed = [K \in Kinds |-> FALSE]
    /\ stopMark = 0
    /\ prev = <<>>
    /\ ticksUsed = 0
    /\ lstop = IdleStop
    /\ \/ \E e \in EntityIDs :
            ident = [NoIdent EXCEPT !.pc = "new", !.src = "any", !.x = e]
       \/ \E d \in IDDocs :
            ident = [NoIdent EXCEPT !.pc = "doc", !.src = "config", !.doc = d]

identFrame == <<lmu, currentConfig, calls, loads, mu, probes, services, rootDone, wg, tasks,
                entities, repoErrors, stopPc, stopCtxDone, doneClosed, stopMark, ticksUsed,
                prev, lstop>>

\* the path of a monitor document to its ID: InstanceConfig.Valid, the name
\* of the service, BuildMonitor
BuildEntityID ==
    /\ ident.pc = "doc"
    /\ LET d == ident.doc
           probe == Doc(d.name, d.type, 1)
           cfg == CfgDoc(d.instance, << SvcDoc(TRUE, d.service, {"monitors"}, <<probe>>, <<>>) >>)
           b == BuildProbe("monitor", NewServiceID(d.instance, d.service), probe) IN
       IF InstanceConfigValid(cfg) # {} \/ b.err.type # "none"
       THEN ident' = [ident EXCEPT !.pc = "rejected"]
       ELSE ident' = [ident EXCEPT !.pc = "new", !.x = EntityIDOf(b.id)]
    /\ UNCHANGED identFrame

\* id.Canonical()
CanonicalCall ==
    /\ ident.pc = "new"
    /\ \E order \in Orders(DOMAIN ident.x.labels) :
         ident' = [ident EXCEPT !.pc = "canon", !.canon = Canonical(ident.x, order)]
    /\ UNCHANGED identFrame

\* ParseEntityID(canonical)
ParseCall ==
    /\ ident.pc = "canon"
    /\ ident' = [ident EXCEPT !.pc = "parsed", !.parsed = ParseEntityID(ident.canon)]
    /\ UNCHANGED identFrame

NextID ==
    \/ BuildEntityID
    \/ CanonicalCall
    \/ ParseCall

SpecID == InitID /\ [][NextID]_vars

\* reloads with a probe whose interval is negative, and probes whose Run
\* panics; after a panic the process takes no step
PanicConfigs ==
    { CfgDoc("i", << SvcDoc(TRUE, "s1", {"monitors"}, <<X1>>, <<>>) >>),
      CfgDoc("i", << SvcDoc(TRUE, "s1", {"monitors"}, <<X1, Y1>>, <<>>) >>),
      CfgDoc("i", << SvcDoc(TRUE, "s2", {"metrics"}, <<>>, <<M1>>) >>),
      CfgDoc("i", << SvcDoc(TRUE, "s2", {"monitors"}, <<NegInterval>>, <<>>) >>),
      CfgDoc("i", << SvcDoc(TRUE, "s2", {"monitors"}, <<BadInterval>>, <<>>) >>) }

\* a step of the process while it lives
Live(A) == ~Crashed /\ A

NextPanic ==
    \/ \E c \in Clients, cfg \in PanicConfigs : Live(LoadConfigCall(c, cfg))
    \/ \E c \in Clients : Live(LoadConfigService(c))
    \/ \E c \in Clients : Live(LoadServiceEntity(c))
    \/ \E c \in Clients : Live(LoadServiceApply(c))
    \/ \E c \in Clients : Live(LoadServiceReturn(c))
    \/ \E c \in Clients : Live(LoadConfigReturn(c))
    \/ \E t \in TaskIds : Live(TaskTick(t))
    \/ \E t \in TaskIds : Live(TaskExit(t))
    \/ \E t \in TaskIds : Live(MonitorRunReturn(t))
    \/ \E t \in TaskIds : Live(MetricRunReturn(t))
    \/ \E t \in TaskIds : Live(WriteReturn(t))
    \/ \E t \in TaskIds : Live(RunPanics(t))

SpecPanic == Init /\ [][NextPanic]_vars

\* Loader.Stop followed to its return, its ctx live or already cancelled at
\* the call
StopConfigs ==
    { CfgDoc("i", << SvcDoc(TRUE, "s1", {"monitors"}, <<X1>>, <<>>) >>),
      CfgDoc("i", << SvcDoc(TRUE, "s2", {"metrics"}, <<>>, <<M1>>) >>) }

NextStop ==
    \/ \E c \in Clients, cfg \in StopConfigs : LoadConfigCall(c, cfg)
    \/ \E c \in Clients : LoadConfigService(c)
    \/ \E c \in Clients : LoadServiceEntity(c)
    \/ \E c \in Clients : LoadServiceApply(c)
    \/ \E c \in Clients : LoadServiceReturn(c)
    \/ \E c \in Clients : LoadConfigReturn(c)
    \/ \E t \in TaskIds : TaskTick(t)
    \/ \E t \in TaskIds : TaskExit(t)
    \/ \E t \in TaskIds : MonitorRunReturn(t)
    \/ \E t \in TaskIds : MetricRunReturn(t)
    \/ \E t \in TaskIds : WriteReturn(t)
    \/ LoaderStop
    \/ LoaderStopCancelled
    \/ \E K \in Kinds : StopCancel(K)
    \/ \E K \in Kinds : StopWaitDone(K)
    \/ \E K \in Kinds : StopReturn(K)
    \/ LoaderStopSelect
    \/ LoaderStopWake

SpecStop == Init /\ [][NextStop]_vars

\* ------------------------------------------------------------------------
\* Specification: two callers of LoadConfig, Loader.Stop and the tick tasks,
\* every goroutine scheduled
\* ------------------------------------------------------------------------
NextLive ==
    \/ \E c \in Clients, cfg \in StopConfigs : LoadConfigCall(c, cfg)
    \/ \E c \in Clients : LoadConfigLock(c)
    \/ \E c \in Clients : LoadConfigService(c)
    \/ \E c \in Clients : LoadServiceEntity(c)
    \/ \E c \in Clients : LoadServiceApply(c)
    \/ \E c \in Clients : LoadServiceReturn(c)
    \/ \E c \in Clients : LoadConfigReturn(c)
    \/ \E t \in TaskIds : TaskTick(t)
    \/ \E t \in TaskIds : TaskExit(t)
    \/ \E t \in TaskIds : MonitorRunReturn(t)
    \/ \E t \in TaskIds : MetricRunReturn(t)
    \/ \E t \in TaskIds : WriteReturn(t)
    \/ LoaderStop
    \/ LoaderStopCancelled
    \/ \E K \in Kinds : StopCancel(K)
    \/ \E K \in Kinds : StopWaitDone(K)
    \/ \E K \in Kinds : StopReturn(K)
    \/ LoaderStopSelect
    \/ LoaderStopWake

\* a goroutine inside LoadConfig that can take its next step takes it: the
\* Go scheduler runs every runnable goroutine, the entity repository answers
\* every call, and sync.RWMutex hands the lock to a goroutine waiting in
\* Lock() once it is unlocked (strong fairness of the blocked Lock)
LoadConfigScheduled(c) ==
    /\ SF_vars(LoadConfigLock(c))
    /\ WF_vars(LoadConfigService(c))
    /\ WF_vars(LoadServiceEntity(c))
    /\ WF_vars(LoadServiceApply(c))
    /\ WF_vars(LoadServiceReturn(c))
    /\ WF_vars(LoadConfigReturn(c))

SpecLive ==
    InitConc /\ [][NextLive]_vars /\ \A c \in TwoClients : LoadConfigScheduled(c)

\* ------------------------------------------------------------------------
\* Properties
\* ------------------------------------------------------------------------
\* the LoadConfig call of client c is about to return nil
LoadConfigReturnsNil(c) == calls[c].pc = "lc_ret" /\ calls[c].err = NoError

\* the LoadService call of client c is about to return nil
LoadServiceReturnsNil(c) == calls[c].pc = "ls_ret" /\ calls[c].err = NoError

\* the canonical IDs of a raw list, by the naming scheme alone
IDsOfRawList(K, sid, rawList) ==
    {NewProbeIDFromServiceID(K, sid, d.type, d.name) : d \in Range(rawList)}

\* tick tasks of scheduler K
TasksOf(K) == {t \in TaskIds : tasks[t].kind = K}

\* C1: when LoadConfig(cfg) returns nil, the running monitor IDs are exactly
\* the monitor IDs derivable from cfg, and the running metric IDs are exactly
\* the metric IDs derivable from cfg.
C1_Convergence ==
    \A c \in Clients :
        LoadConfigReturnsNil(c) =>
            \A K \in Kinds : RunningIDs(K) = DerivableIDs(calls[c].cfg, K)

\* C2: when LoadService(serviceID, rawList) returns nil, the ServiceEntry of
\* serviceID holds exactly the canonical IDs of rawList, and each of them is in
\* the probe map with running = true, the raw config of this call, and a tick
\* task of its own whose context is a child of the root context.
C2_LoadServicePostState ==
    \A c \in Clients :
        LoadServiceReturnsNil(c) =>
            LET r == calls[c]
                K == r.kind
                sid == CallServiceID(r)
                ids == IDsOfRawList(K, sid, CallRawList(r, K)) IN
            /\ sid \in DOMAIN services[K]
            /\ services[K][sid] = ids
            /\ \A id \in ids :
                 /\ id \in DOMAIN probes[K]
                 /\ probes[K][id].running
                 /\ \E i \in DOMAIN CallRawList(r, K) :
                      /\ probes[K][id].raw = CallRawList(r, K)[i]
                      /\ NewProbeIDFromServiceID(K, sid, probes[K][id].raw.type,
                                                 probes[K][id].raw.name) = id
                 /\ probes[K][id].task \in TasksOf(K)
                 /\ tasks[probes[K][id].task].id = id
                 /\ tasks[probes[K][id].task].parent = "root"
                 /\ ~tasks[probes[K][id].task].cancelled
                 /\ \A id2 \in ids : id2 # id => probes[K][id2].task # probes[K][id].task

\* C2 witness: a LoadService that reloaded a running probe with a changed raw
\* config is about to return nil.
C2_Witness ==
    \E c \in Clients :
        /\ LoadServiceReturnsNil(c)
        /\ calls[c].kind = "monitor"
        /\ \E id \in DOMAIN calls[c].desired :
             /\ calls[c].desired[id] = X2
             /\ \E t \in TasksOf("monitor") : tasks[t].id = id /\ tasks[t].cancelled

\* task t commits a heartbeat or sample row in this step
WritesRow(t) == tasks'[t].rows > tasks[t].rows

\* C3: once the Stop of its scheduler has returned, or the LoadService that
\* removed its probe has returned, a tick task writes no heartbeat or sample.
C3_NoTickAfterStop ==
    [][\A t \in TaskIds : Retired(t) => ~WritesRow(t)]_vars

\* C4: a tick task spawned for a canonical ID that already has one starts
\* only after the old one was cancelled, and no two tick tasks of the same
\* canonical ID are alive at the same time.
C4_ReloadSafety ==
    \A t1, t2 \in TaskIds :
        (t1 < t2 /\ tasks[t1].kind = tasks[t2].kind /\ tasks[t1].id = tasks[t2].id) =>
            /\ tasks[t1].cancelled
            /\ ~(Alive(t1) /\ Alive(t2))

\* C5: when LoadService returns nil, every tick task of that service still
\* alive is a task of an ID of the new desired set.
C5_RemovalCompletes ==
    \A c \in Clients :
        LoadServiceReturnsNil(c) =>
            \A t \in TasksOf(calls[c].kind) :
                ( /\ Alive(t)
                  /\ tasks[t].id.instance = CallServiceID(calls[c]).instance
                  /\ tasks[t].id.service = CallServiceID(calls[c]).name )
                => tasks[t].id \in DOMAIN calls[c].desired

\* C6: the entity row of a tick task's canonical ID exists from the moment the
\* task is spawned, hence at every heartbeat or sample write it attempts.
C6_EntityBeforeOutcome ==
    \A t \in TaskIds : EntityRows(tasks[t].id) # {}

\* C6 witness: a tick task has written a row.
C6_Witness ==
    \E t \in TaskIds : tasks[t].rows > 0 /\ EntityRows(tasks[t].id) # {}

\* tick tasks of scheduler K spawned before Stop was called
OutstandingAtStop(K) == {t \in TasksOf(K) : t <= stopMark}

\* C7: when the Stop of a scheduler returns nil, the root context is cancelled,
\* the done channel was closed, and every tick task spawned before Stop was
\* called has observed its cancellation and returned.
C7_StopNilJoinsTasks ==
    \A K \in Kinds :
        stopPc[K] = "ret_nil" =>
            /\ rootDone[K]
            /\ doneClosed[K]
            /\ \A t \in OutstandingAtStop(K) : ~Alive(t) /\ CtxDone(t)

\* C7 witness: Stop has returned nil and a tick task that was never cancelled
\* by a reload, spawned before Stop was called, has returned.
C7_Witness ==
    \E K \in Kinds :
        /\ stopPc[K] = "ret_nil"
        /\ \E t \in OutstandingAtStop(K) : ~tasks[t].cancelled /\ ~Alive(t)

C9_InFlightTickWritesNothing ==
    [][\A t \in TaskIds :
          (stopPc[tasks[t].kind] = "ret_err" /\ tasks[t].pc \in {"run", "write"})
              => ~WritesRow(t)]_vars

\* C10: when a LoadConfig(cfg) that directly follows a successful
\* LoadConfig(cfg) returns nil, the running ID sets, the ServiceEntries, the
\* entity rows and the stored document are what they were after the first call.
C10_Idempotence ==
    \A c \in Clients :
        (LoadConfigReturnsNil(c) /\ prev # <<>> /\ prev[1].cfg = calls[c].cfg)
            => Snapshot = prev[1].snap

\* C10 witness: the second of two successful LoadConfig calls of a document
\* with a monitor is about to return.
C10_Witness ==
    \E c \in Clients :
        /\ LoadConfigReturnsNil(c)
        /\ prev # <<>>
        /\ prev[1].cfg = calls[c].cfg
        /\ RunningIDs("monitor") # {}
        /\ Len(entities) > 0

\* the first position (from 1) of a raw list whose canonical ID repeats that of
\* an earlier entry, 0 when no ID repeats
FirstRepeat(K, sid, rawList) ==
    LET idAt(i) == NewProbeIDFromServiceID(K, sid, rawList[i].type, rawList[i].name)
        rep == {j \in DOMAIN rawList : \E i \in 1..(j - 1) : idAt(i) = idAt(j)} IN
    IF rep = {} THEN 0 ELSE CHOOSE j \in rep : \A k \in rep : j <= k

\* the LoadService call of client c returns in this step, on a raw list whose
\* entries up to the first repeated ID are all well-formed
LoadServiceOnRepeat(c) ==
    LET r == calls'[c]
        raw == CallRawList(r, r.kind)
        j == FirstRepeat(r.kind, CallServiceID(r), raw) IN
    /\ calls[c].pc # "ls_ret"
    /\ r.pc = "ls_ret"
    /\ j > 0
    /\ \A i \in 1..j : /\ ProbeConfigValid(raw[i]) = {}
                       /\ raw[i].type \in RegisteredTypes(r.kind)

\* C11: a LoadService whose list holds two entries with the same canonical ID
\* returns a Duplicate error whose path is the service name and the index
\* (from 0) of the second entry, and starts no probe: the tick tasks, the probe
\* map, the service entries and the WaitGroup are as they were.
C11_DuplicateRejected ==
    [][\A c \in Clients :
          LoadServiceOnRepeat(c) =>
              LET r == calls'[c]
                  sid == CallServiceID(r)
                  j == FirstRepeat(r.kind, sid, CallRawList(r, r.kind)) IN
              /\ r.err.type = "duplicate"
              /\ r.err.path = <<sid.name, ToString(j - 1)>>
              /\ UNCHANGED <<tasks, probes, services, wg>>]_vars

\* C11 witness: a LoadService call on a list of two entries with one ID is
\* returning the Duplicate error for the entry at index 1.
C11_Witness ==
    \E c \in Clients :
        /\ calls[c].pc = "ls_ret"
        /\ FirstRepeat(calls[c].kind, CallServiceID(calls[c]),
                       CallRawList(calls[c], calls[c].kind)) = 2
        /\ calls[c].err.type = "duplicate"
        /\ calls[c].err.path = <<"s1", "1">>

\* C13: when a LoadConfig call returns an error, GetConfig returns what it
\* returned before the call: the document of the last successful call, and nil
\* when the failing call is the first call of the loader.
C13_GetConfigLastApplied ==
    \A c \in Clients :
        (calls[c].pc = "lc_ret" /\ calls[c].err # NoError) =>
            /\ prev # <<>> => currentConfig = prev[1].snap.config
            /\ loads = 1 => currentConfig = <<>>

\* C17: a probe that a LoadService finds running and installs again with the
\* same raw config keeps its tick task, and that task's context is not
\* cancelled by the call.
C17_UntouchedProbeKeepsTask ==
    [][\A K \in Kinds :
          \A id \in DOMAIN probes[K] \cap DOMAIN probes'[K] :
              (probes[K][id].running /\ probes'[K][id].raw = probes[K][id].raw) =>
                  /\ probes'[K][id].task = probes[K][id].task
                  /\ tasks'[probes[K][id].task].cancelled
                         = tasks[probes[K][id].task].cancelled]_vars

\* C16: when the Run of a monitor tick returns the cancellation error of its
\* context, the tick ends there: no heartbeat is built, InsertHeartbeat is not
\* called and no row is written. (A metric's Run emits its sample itself;
\* runMetric emits nothing after Run, whatever it returns.)
C16_SilentOnCancel ==
    [][\A t \in TaskIds :
          MonitorRunReturns(t, "canceled") =>
              /\ tasks'[t].pc = "select"
              /\ ~WritesRow(t)]_vars

\* C16 witness: the Run of a monitor tick is in flight under a context that
\* is done, so that it can return the cancellation error.
C16_Witness ==
    \E t \in TasksOf("monitor") :
        /\ tasks[t].pc = "run"
        /\ CtxDone(t)
        /\ "canceled" \in RunResults(t)

\* a probe document a scheduler rejects
ProbeRejected(K, doc) ==
    \/ ProbeConfigValid(doc) # {}
    \/ doc.type \notin RegisteredTypes(K)
    \/ TypeConfigValid(doc) # {}

\* a raw list that a scheduler rejects: an entry fails its validation, has a
\* type the scheduler does not know, or repeats an ID
ListRejected(K, sid, rawList) ==
    \/ \E i \in DOMAIN rawList : ProbeRejected(K, rawList[i])
    \/ FirstRepeat(K, sid, rawList) > 0

\* service j of a document is where its application fails: it has no name, or
\* one of its lists is rejected
ServiceFails(cfg, j) ==
    LET svc == cfg.services[j] IN
    \/ ~svc.hasName
    \/ \E K \in Kinds : /\ ListKey(K) \in svc.keys
                        /\ ListRejected(K, NewServiceID(cfg.name, svc.name), RawList(svc, K))

\* the ServiceEntry of a service in a services map, <<>> when it has none
SvcEntry(svcs, K, sid) == IF sid \in DOMAIN svcs[K] THEN <<svcs[K][sid]>> ELSE <<>>

\* the IDs of a set that belong to a service
IDsOfService(ids, sid) ==
    {id \in ids : id.instance = sid.instance /\ id.service = sid.name}

\* list K of service j of the document is applied: its entry and running
\* probes are those of the list
ListApplied(cfg, j, K) ==
    LET svc == cfg.services[j]
        sid == NewServiceID(cfg.name, svc.name) IN
    ListKey(K) \in svc.keys =>
        /\ SvcEntry(services, K, sid) = <<IDsOfRawList(K, sid, RawList(svc, K))>>
        /\ IDsOfRawList(K, sid, RawList(svc, K)) \subseteq RunningIDs(K)

\* the state a LoadConfig call started in, when it is the first call or the
\* call before it returned nil
AtCallStart ==
    IF prev # <<>> THEN prev[1].snap
    ELSE [running |-> [K \in Kinds |-> {}],
          services |-> [K \in Kinds |-> EmptyServices],
          entities |-> <<>>,
          config |-> <<>>]

\* scheduler K holds for service j of the document what it held when the
\* call started
ListUntouched(cfg, j, K) ==
    LET sid == NewServiceID(cfg.name, cfg.services[j].name) IN
    /\ SvcEntry(services, K, sid) = SvcEntry(AtCallStart.services, K, sid)
    /\ IDsOfService(RunningIDs(K), sid) = IDsOfService(AtCallStart.running[K], sid)

\* C12: when LoadConfig returns a configuration error met at service k, the
\* lists of the services before k are applied, the monitors of service k are
\* applied when it is its metrics that failed, and the rest of service k and
\* every service after k is as it was when the call started.
C12_NoRollback ==
    \A c \in Clients :
        LET r == calls[c]
            cfg == r.cfg
            k == CHOOSE j \in DOMAIN cfg.services :
                     ServiceFails(cfg, j) /\ \A i \in 1..(j - 1) : ~ServiceFails(cfg, i)
            svc == cfg.services[k]
            sid == NewServiceID(cfg.name, svc.name)
            monitorsFail == /\ svc.hasName
                            /\ "monitors" \in svc.keys
                            /\ ListRejected("monitor", sid, svc.monitors) IN
        ( /\ r.pc = "lc_ret"
          /\ r.err.type \in {"validation", "noname", "duplicate"}
          /\ cfg.parses
          /\ InstanceConfigValid(cfg) = {}
          /\ (prev # <<>> \/ loads = 1) ) =>
            /\ r.idx = k
            /\ \A j \in 1..(k - 1), K \in Kinds : ListApplied(cfg, j, K)
            /\ (svc.hasName /\ ~monitorsFail) =>
                   /\ ListApplied(cfg, k, "monitor")
                   /\ ListUntouched(cfg, k, "metric")
            /\ (svc.hasName /\ monitorsFail) =>
                   \A K \in Kinds : ListUntouched(cfg, k, K)
            /\ \A j \in (k + 1)..Len(cfg.services), K \in Kinds :
                   cfg.services[j].hasName => ListUntouched(cfg, j, K)

\* C12 witness: LoadConfig is returning the error of a service without a name
\* at index 1; the monitor of the service before it is running and the monitor
\* of the service after it, which the document would remove, is still running.
C12_Witness ==
    \E c \in Clients :
        /\ calls[c].pc = "lc_ret"
        /\ calls[c].err.type = "noname"
        /\ calls[c].err.index = 1
        /\ prev # <<>>
        /\ NewMonitorID("i", "s1", "tcp", "x") \in RunningIDs("monitor")
        /\ NewMonitorID("i", "s2", "tcp", "y") \in RunningIDs("monitor")

\* a document LoadConfig rejects before it reaches any service: it does not
\* parse, its instance has no name, or it lists no service
RejectedAtInstance(cfg) ==
    \/ ~cfg.parses
    \/ cfg.name = ""
    \/ Len(cfg.services) = 0

\* C15: a LoadConfig call with a document that does not parse, has an empty
\* instance name or has no services goes straight to its return, with a
\* parse error resp. a validation error naming the instance, and neither the
\* call nor its return takes a mutex, changes the stored config, or changes
\* a scheduler's maps, tick tasks or entities.
C15_InstanceLevelFailure ==
    [][ \A c \in Clients :
          /\ \A cfg \in Configs \cup DocConfigs :
               (RejectedAtInstance(cfg) /\ LoadConfigCall(c, cfg)) =>
                   /\ calls'[c].pc = "lc_ret"
                   /\ calls'[c].err = IF cfg.parses
                                      THEN [type |-> "validation",
                                            path |-> <<cfg.name>>, index |-> -1]
                                      ELSE ParseError
                   /\ UNCHANGED <<lmu, currentConfig, mu, probes, services,
                                  tasks, entities, wg, rootDone>>
          /\ ( /\ calls[c].pc = "lc_ret"
               /\ RejectedAtInstance(calls[c].cfg)
               /\ LoadConfigReturn(c) ) =>
                   UNCHANGED <<lmu, currentConfig, mu, probes, services,
                               tasks, entities, wg, rootDone>>
      ]_vars

\* C15 witness: a LoadConfig call is returning the validation error of a
\* document without services while an earlier document is stored and its
\* monitor is running.
C15_Witness ==
    \E c \in Clients :
        /\ calls[c].pc = "lc_ret"
        /\ calls[c].cfg.parses
        /\ Len(calls[c].cfg.services) = 0
        /\ calls[c].err.type = "validation"
        /\ currentConfig # <<>>
        /\ currentConfig[1] # calls[c].cfg
        /\ RunningIDs("monitor") # {}

\* two IDs of one service and one probe name that differ in the probe type
TypeChanged(old, new) ==
    /\ old.instance = new.instance
    /\ old.service = new.service
    /\ old.name = new.name
    /\ old.type # new.type

\* C18: when LoadService returns nil and its list gives a probe name a type
\* other than the one a tick task of that service was started with, that
\* task is cancelled, its ID is in neither the scheduler's map nor the
\* ServiceEntry, and the ID with the new type is in both, running, with a
\* task that is not cancelled.
C18_TypeChangeIsDeleteAdd ==
    \A c \in Clients :
        LoadServiceReturnsNil(c) =>
            LET K == calls[c].kind
                sid == CallServiceID(calls[c])
                want == IDsOfRawList(K, sid, CallRawList(calls[c], K)) IN
            \A new \in want : \A t \in TasksOf(K) :
                TypeChanged(tasks[t].id, new) =>
                    /\ tasks[t].cancelled
                    /\ tasks[t].id \notin DOMAIN probes[K]
                    /\ tasks[t].id \notin services[K][sid]
                    /\ new \in DOMAIN probes[K]
                    /\ new \in services[K][sid]
                    /\ probes[K][new].running
                    /\ ~tasks[probes[K][new].task].cancelled

\* C18 witness: LoadService is returning nil for a list that makes monitor x
\* of service s1 an http monitor while the task of its tcp ID exists.
C18_Witness ==
    \E c \in Clients :
        /\ LoadServiceReturnsNil(c)
        /\ calls[c].kind = "monitor"
        /\ NewMonitorID("i", "s1", "http", "x") \in DOMAIN probes["monitor"]
        /\ \E t \in TasksOf("monitor") : tasks[t].id = NewMonitorID("i", "s1", "tcp", "x")

\* a call is between taking the loader mutex and its return
InLoadServiceSequence(c) == calls[c].pc \in {"lc_svc", "ls_ent", "ls_ret"}

\* a document LoadConfig finds no fault with
ValidDocument(cfg) ==
    /\ ~RejectedAtInstance(cfg)
    /\ \A j \in DOMAIN cfg.services : ~ServiceFails(cfg, j)

\* C14: a call that is in its sequence of LoadService calls holds the loader
\* mutex, so no two calls are in their sequences at once; a call with a valid
\* document returns nil unless the entity repository failed; and whenever
\* GetConfig can return, the stored config is the document of the call that
\* held the mutex last and has run to its return: while a call holds the
\* mutex the stored config is its document, and a step that starts and ends
\* with the mutex free leaves the stored config alone.
C14_LoadConfigSerialised ==
    /\ [](\A c \in Clients :
            /\ InLoadServiceSequence(c) =>
                   /\ lmu = c
                   /\ currentConfig = <<calls[c].cfg>>
                   /\ \A d \in Clients \ {c} : ~InLoadServiceSequence(d)
            /\ (calls[c].pc = "lc_ret" /\ ValidDocument(calls[c].cfg)) =>
                   calls[c].err \in {NoError, RepoError})
    /\ [][ \A v \in {currentConfig} :
             (GetConfigReturns(v) /\ lmu' = None) => currentConfig' = v ]_vars

\* C14 witness: one call is in its LoadService sequence while the other call,
\* with a valid document, is blocked on the loader mutex.
C14_Witness ==
    \E c, d \in Clients :
        /\ calls[c].pc = "ls_ent"
        /\ calls[d].pc = "lc_lock"
        /\ ValidDocument(calls[d].cfg)
        /\ calls[d].cfg # calls[c].cfg

\* C19: a Loader.Stop call whose ctx was already cancelled when it was called
\* returns the error of ctx, never nil.
C19_StopCancelledCtxReturnsError ==
    (lstop.cancelledAtCall /\ lstop.pc \in {"ret_nil", "ret_err"}) =>
        lstop.pc = "ret_err"

\* C20: when Loader.Stop returns nil, the Stop calls of both schedulers have
\* returned nil and every tick task spawned before the call has returned.
C20_LoaderStopNilJoinsAll ==
    lstop.pc = "ret_nil" =>
        \A K \in Kinds :
            /\ stopPc[K] = "ret_nil"
            /\ \A t \in OutstandingAtStop(K) : ~Alive(t)

\* the service of a document where LoadConfig fails first
FailingService(cfg) ==
    CHOOSE j \in DOMAIN cfg.services :
        ServiceFails(cfg, j) /\ \A i \in 1..(j - 1) : ~ServiceFails(cfg, i)

\* the list of the failing service that is rejected: its monitors when they
\* are, else its metrics
FailingKind(cfg) ==
    LET svc == cfg.services[FailingService(cfg)] IN
    IF /\ "monitors" \in svc.keys
       /\ ListRejected("monitor", NewServiceID(cfg.name, svc.name), svc.monitors)
    THEN "monitor" ELSE "metric"

\* the first entry of a raw list that the scheduler rejects, 0 when none
FirstRejected(K, rawList) ==
    IF \E i \in DOMAIN rawList : ProbeRejected(K, rawList[i])
    THEN CHOOSE i \in DOMAIN rawList :
             /\ ProbeRejected(K, rawList[i])
             /\ \A j \in 1..(i - 1) : ~ProbeRejected(K, rawList[j])
    ELSE 0

\* LoadConfig is returning the error of a probe document: the document passed
\* the instance checks, its failing service has a name, and the error is not
\* that of a repeated ID
ReturnsProbeError(c) ==
    LET cfg == calls[c].cfg IN
    /\ calls[c].pc = "lc_ret"
    /\ calls[c].err.type \in {"validation", "noname"}
    /\ ~RejectedAtInstance(cfg)
    /\ cfg.services[FailingService(cfg)].hasName

\* the rejected probe document of a call that returns a probe error, and its
\* position in its list, counted from 0
RejectedProbeIndex(c) ==
    LET cfg == calls[c].cfg
        K == FailingKind(cfg) IN
    FirstRejected(K, RawList(cfg.services[FailingService(cfg)], K)) - 1

RejectedProbe(c) ==
    LET cfg == calls[c].cfg
        K == FailingKind(cfg) IN
    RawList(cfg.services[FailingService(cfg)], K)[RejectedProbeIndex(c) + 1]

\* C21: a validation error raised for a probe named m of service s of
\* instance i, whether by the common header, by an unknown type or by the
\* Configure of its type, is returned by LoadConfig with path <<i, s, m>>.
C21_PathAccumulation ==
    \A c \in Clients :
        (ReturnsProbeError(c) /\ RejectedProbe(c).name # "") =>
            LET cfg == calls[c].cfg IN
            /\ calls[c].err.type = "validation"
            /\ calls[c].err.path = << cfg.name,
                                      cfg.services[FailingService(cfg)].name,
                                      RejectedProbe(c).name >>

\* C22: a probe document without a name at position k of its list makes
\* LoadConfig return a NoName error with index k and path <<i, s>>.
C22_ProbeNoNameIndexed ==
    \A c \in Clients :
        (ReturnsProbeError(c) /\ RejectedProbe(c).name = "") =>
            LET cfg == calls[c].cfg IN
            /\ calls[c].err.type = "noname"
            /\ calls[c].err.index = RejectedProbeIndex(c)
            /\ calls[c].err.path = << cfg.name,
                                      cfg.services[FailingService(cfg)].name >>

\* C23: a service document without a name at position k makes LoadConfig
\* return, from its loop over the services, a NoName error with index k and
\* path <<i>>; a call inside a LoadService is at a service that has a name
\* and comes after named services only.
C23_ServiceNoNameIndexed ==
    /\ [](\A c \in Clients :
            calls[c].pc \in {"ls_ent", "ls_ret"} =>
                \A j \in 1..calls[c].idx : calls[c].cfg.services[j].hasName)
    /\ [][ \A c \in Clients :
             ( /\ calls[c].pc = "lc_svc"
               /\ calls[c].idx \in DOMAIN calls[c].cfg.services
               /\ ~calls[c].cfg.services[calls[c].idx].hasName
               /\ LoadConfigService(c) ) =>
                 /\ calls'[c].pc = "lc_ret"
                 /\ calls'[c].err = [type |-> "noname",
                                     path |-> <<calls[c].cfg.name>>,
                                     index |-> calls[c].idx - 1]
                 /\ UNCHANGED <<mu, probes, services, tasks, entities, wg>> ]_vars

\* C23 witness: LoadConfig is returning the NoName error of the service at
\* index 1, whose later service is in the document and has lists to load.
C23_Witness ==
    \E c \in Clients :
        /\ calls[c].pc = "lc_ret"
        /\ calls[c].err.type = "noname"
        /\ calls[c].err.index = 1
        /\ calls[c].err.path = <<"i">>
        /\ Len(calls[c].cfg.services) = 3
        /\ NewMonitorID("i", "s1", "tcp", "x") \in RunningIDs("monitor")

\* a string without the separator and without "="
CleanString(str) == \A i \in DOMAIN str : str[i] \notin {IDSeparator, "="}

\* an EntityID whose label values are clean
CleanValues(e) == \A k \in DOMAIN e.labels : CleanString(e.labels[k])

AcceptedID(d) ==
    LET probe == Doc(d.name, d.type, 1)
        cfg == CfgDoc(d.instance, << SvcDoc(TRUE, d.service, {"monitors"}, <<probe>>, <<>>) >>)
        b == BuildProbe("monitor", NewServiceID(d.instance, d.service), probe) IN
    IF InstanceConfigValid(cfg) # {} \/ b.err.type # "none"
    THEN <<>> ELSE <<EntityIDOf(b.id)>>

\* C25: the EntityID built for an accepted monitor document has no label value
\* with the separator or "="; its canonical string parses back to it, and no
\* accepted document of the same instance with another service, type or name
\* has the same canonical string.
C25_ProducedIDsClean ==
    (ident.src = "config" /\ ident.pc \in {"new", "canon", "parsed"}) =>
        /\ CleanValues(ident.x)
        /\ ident.pc = "parsed" => ident.parsed = ident.x
        /\ ident.pc = "canon" =>
               \A d \in IDDocs :
                   ( /\ AcceptedID(d) # <<>>
                     /\ d.instance = ident.doc.instance
                     /\ <<d.service, d.type, d.name>>
                            # <<ident.doc.service, ident.doc.type, ident.doc.name>> ) =>
                       \A order \in Orders(DOMAIN AcceptedID(d)[1].labels) :
                           Canonical(AcceptedID(d)[1], order) # ident.canon

\* C26: a probe document whose interval is zero or negative is rejected, so
\* no instance is installed with such a document and no tick task is started
\* with a period that is not positive.
C26_IntervalPositive ==
    /\ \A K \in Kinds : \A id \in DOMAIN probes[K] : probes[K][id].raw.interval > 0
    /\ \A t \in TaskIds : tasks[t].ticker

\* C27: after the Run of a probe has panicked, the wait group of its scheduler
\* counts only the tick tasks that are still running, and every other tick
\* task that waits in its select with its context live can take its exit
\* once cancelled and its next tick while ticks remain.
C27_PanicRecovered ==
    \A t \in TaskIds :
        tasks[t].pc = "panicked" =>
            /\ wg[tasks[t].kind] =
                   Cardinality({u \in TasksOf(tasks[t].kind) :
                                    tasks[u].pc \notin {"done", "panicked"}})
            /\ \A u \in TaskIds \ {t} :
                   /\ (tasks[u].pc = "select" /\ ticksUsed < MaxTicks) =>
                          ENABLED Live(TaskTick(u))
                   /\ (tasks[u].pc = "select" /\ CtxDone(u)) =>
                          ENABLED Live(TaskExit(u))

\* C28: a repository write of a tick task that fails is dropped: the step in
\* which the write returns without a row leaves the task at its select (it has
\* not terminated and takes its next tick from there), and changes neither the
\* probe tables and their running flags, nor the task's context, nor the wait
\* group.
C28_FailedWriteDropped ==
    /\ [][\A t \in TaskIds :
             (WriteReturn(t) /\ ~WritesRow(t)) =>
                 /\ tasks'[t].pc = "select"
                 /\ tasks'[t].cancelled = tasks[t].cancelled
                 /\ probes' = probes
                 /\ wg' = wg
                 /\ \A u \in TaskIds \ {t} : tasks'[u] = tasks[u]]_vars
    /\ [](\A t \in TaskIds :
             (tasks[t].pc = "select" /\ ticksUsed < TickBudget) =>
                 ENABLED TaskTickWithin(t, TickBudget))

\* C28 witness: the only task, a monitor task whose context is not done, is
\* in the Run of its second tick with no row written, its probe still
\* running: the write of its first tick failed and was dropped.
C28_Witness ==
    \E t \in TasksOf("monitor") :
        /\ tasks[t].pc = "run"
        /\ ~CtxDone(t)
        /\ tasks[t].rows = 0
        /\ ticksUsed = 2
        /\ Len(tasks) = 1
        /\ \E id \in DOMAIN probes["monitor"] :
             probes["monitor"][id].task = t /\ probes["monitor"][id].running

\* C29: when the Run of a monitor tick returns nil or an error other than the
\* cancellation error, the tick enters InsertHeartbeat with a heartbeat that
\* carries the ID of the probe and Run's error, successful exactly when that
\* error is nil; InsertHeartbeat is entered from nowhere else, and the call
\* ends at the select of the task, so a tick makes one call and a failing tick
\* leaves the task ticking. A metric tick whose read of the load average
\* fails emits no sample and ends at the select of the task.
C29_OneHeartbeatPerTick ==
    [][\A t \in TaskIds :
          /\ \A result \in {"nil", "err"} :
                 MonitorRunReturns(t, result) =>
                     /\ tasks'[t].pc \in {"write", "insert"}
                     /\ tasks'[t].hb.monitorID = tasks[t].id
                     /\ tasks'[t].hb.error = result
                     /\ IsSuccessful(tasks'[t].hb) <=> (result = "nil")
          /\ (/\ tasks[t].kind = "monitor"
              /\ tasks'[t].pc \in {"write", "insert"}
              /\ tasks[t].pc \notin {"write", "insert"}) =>
                 /\ tasks[t].pc = "run"
                 /\ tasks'[t].hb # NoHeartbeat
          /\ (tasks[t].pc \in {"write", "insert"} /\ tasks'[t].pc # tasks[t].pc) =>
                 /\ tasks'[t].pc = "select"
                 /\ tasks'[t].hb = NoHeartbeat
          /\ MetricRunReturns(t, "err") =>
                 /\ tasks'[t].pc = "select"
                 /\ ~WritesRow(t)]_vars

\* C29 witness: the Run of a monitor tick has failed and its heartbeat, not
\* successful, is in InsertHeartbeat.
C29_Witness ==
    \E t \in TasksOf("monitor") :
        /\ tasks[t].pc = "write"
        /\ tasks[t].hb = [monitorID |-> tasks[t].id, error |-> "err"]
        /\ ~IsSuccessful(tasks[t].hb)

\* task t is inside a tick: its Run or the write of its outcome has not returned
InTick(t) == tasks[t].pc \in {"run", "write", "insert"}

\* C30: the ticks of one tick task are serial: every firing of a ticker that
\* starts a Run starts it in a task that waits in its select, with neither a
\* Run nor an outcome write of that task in progress, and the write of an
\* outcome begins only in the step in which the Run of that tick returns.
C30_TicksSerial ==
    [][/\ ticksUsed' > ticksUsed =>
              \E t \in TaskIds :
                  /\ ~InTick(t)
                  /\ tasks[t].pc = "select"
                  /\ tasks'[t].pc = "run"
                  /\ \A u \in TaskIds \ {t} : tasks'[u] = tasks[u]
       /\ \A t \in TaskIds :
              (tasks'[t].pc \in {"write", "insert"} /\ tasks'[t].pc # tasks[t].pc) =>
                  tasks[t].pc = "run"]_vars

\* C30 witness: the only task is in the Run of its second tick, the first
\* tick having returned.
C30_Witness ==
    /\ Len(tasks) = 1
    /\ ticksUsed = 2
    /\ tasks[1].pc = "run"
    /\ InTick(1)

\* C31: every access to the probe map, the service map and the running flags
\* of a scheduler is made by the holder of its mutex: the LoadService call
\* that applies its lists holds it, and so does a Stop call where it reads
\* the probe map.
C31_MapsUnderMutex ==
    [][/\ \A c \in Clients :
              LoadServiceApply(c) => mu[calls[c].kind] = c
       /\ \A K \in Kinds :
              (StopCancel(K) /\ StopReadsProbes(K)) => mu[K] = Stopper]_vars

\* C32: a LoadService call does not hold the scheduler mutex while it waits
\* for the entity repository, and a call that ends in a validation error of
\* its raw entries has decoded and validated them without the mutex.
C32_NoMutexWhileSuspended ==
    \A c \in Clients :
        /\ calls[c].pc = "ls_ent" => mu[calls[c].kind] # c
        /\ (calls[c].pc = "ls_ret" /\ calls[c].err \notin {NoError, RepoError}) =>
               mu[calls[c].kind] # c

\* C33: the entity store holds at most one row per canonical ID, and a step
\* that inserts a row inserts one row, for an ID that had none.
C33_OneRowPerID ==
    /\ [](\A i, j \in DOMAIN entities : entities[i] = entities[j] => i = j)
    /\ [][entities' # entities =>
              /\ Len(entities') = Len(entities) + 1
              /\ SubSeq(entities', 1, Len(entities)) = entities
              /\ EntityRows(entities'[Len(entities')]) = {}]_vars

\* C33 witness: with two callers, the second LoadConfig call is past the
\* entity lookups of an ID that the first call registered and whose probe it
\* started.
C33_Witness ==
    \E c \in Clients :
        /\ loads = 2
        /\ calls[c].pc = "ls_ent"
        /\ calls[c].pending = {}
        /\ \E id \in DOMAIN calls[c].desired :
             /\ EntityRows(id) # {}
             /\ id \in DOMAIN probes[calls[c].kind]

\* C34: a Duplicate error is a path-bearing configuration error, and the one
\* a LoadConfig call returns has the instance name in front of the service
\* name and the index of the repeated entry.
C34_DuplicatePathPrepended ==
    \A c \in Clients :
        (calls[c].pc = "lc_ret" /\ calls[c].err.type = "duplicate") =>
            /\ IsConfigError(calls[c].err)
            /\ Len(calls[c].err.path) = 3
            /\ calls[c].err.path[1] = calls[c].cfg.name
            /\ calls[c].err.path[2] = calls[c].cfg.services[calls[c].idx].name

\* the probe map, the service entries or the set of live tick tasks of some
\* scheduler change in this step: a probe is stopped, started or replaced
SchedulerChanges ==
    \/ probes' # probes
    \/ services' # services
    \/ Len(tasks') # Len(tasks)
    \/ \E t \in TaskIds : tasks'[t].cancelled # tasks[t].cancelled

\* C35: a LoadService call that returns an error has changed neither the
\* probe map nor the service entries nor stopped, started or replaced a tick
\* task: the only step of a call that changes any of them is the one that
\* completes the call without an error, and the steps in which a call fails
\* change none.
C35_FailedLoadServiceChangesNothing ==
    [][/\ SchedulerChanges =>
              \E c \in Clients :
                  /\ calls[c].pc = "ls_ent"
                  /\ calls'[c].pc = "ls_ret"
                  /\ calls'[c].err = NoError
       /\ \A c \in Clients :
              (calls[c].pc # "ls_ret" /\ calls'[c].pc = "ls_ret" /\ calls'[c].err # NoError)
                  => ~SchedulerChanges]_vars

\* C35 witness: a LoadService call is returning an error to a scheduler that
\* runs a probe of the service it was called for.
C35_Witness ==
    \E c \in Clients :
        /\ calls[c].pc = "ls_ret"
        /\ calls[c].err # NoError
        /\ CallServiceID(calls[c]) \in DOMAIN services[calls[c].kind]
        /\ \E id \in DOMAIN probes[calls[c].kind] :
             /\ probes[calls[c].kind][id].running
             /\ id \in EntryIDs(calls[c].kind, CallServiceID(calls[c]))

\* C36: the step in which a LoadService call for service S applies its list
\* leaves the entry of every other service as it was, and every probe listed
\* in the entry of another service in the map, with the instance and the task
\* it had, not cancelled by the step.
C36_OtherServicesUntouched ==
    [][\A c \in Clients :
          LoadServiceApply(c) =>
              LET K == calls[c].kind
                  sid == CallServiceID(calls[c]) IN
              \A other \in DOMAIN services[K] \ {sid} :
                  /\ services'[K][other] = services[K][other]
                  /\ \A id \in services[K][other] \cap DOMAIN probes[K] :
                         /\ id \in DOMAIN probes'[K]
                         /\ probes'[K][id] = probes[K][id]
                         /\ tasks'[probes[K][id].task].cancelled
                                = tasks[probes[K][id].task].cancelled]_vars

\* C37: while no LoadService call is in progress at a scheduler, every ID
\* listed in one of its service entries is a key of its probe map, every key
\* of its probe map is listed in exactly one service entry, and every
\* instance in its probe map is running.
C37_Bookkeeping ==
    \A K \in Kinds :
        mu[K] = None =>
            /\ \A sid \in DOMAIN services[K] : services[K][sid] \subseteq DOMAIN probes[K]
            /\ \A id \in DOMAIN probes[K] :
                   /\ Cardinality({sid \in DOMAIN services[K] : id \in services[K][sid]}) = 1
                   /\ probes[K][id].running

\* C38: every instance in the probe map of a scheduler is running exactly
\* when the context of its tick task is not cancelled.
C38_RunningIffContextLive ==
    \A K \in Kinds :
        \A id \in DOMAIN probes[K] :
            probes[K][id].running <=> ~CtxDone(probes[K][id].task)

\* a LoadService call in progress at scheduler K has tick tasks to spawn
SpawnPending(K) ==
    \E c \in Clients :
        calls[c].pc = "ls_ent" /\ calls[c].kind = K /\ DOMAIN calls[c].desired # {}

\* C39: in the step in which the Stop of a scheduler returns nil, no tick
\* task of that scheduler is alive and no LoadService call in progress at it
\* has tick tasks still to spawn.
C39_StopNilMeansQuiet ==
    [][\A K \in Kinds :
          (stopPc[K] = "waiting" /\ stopPc'[K] = "ret_nil") =>
              /\ \A t \in TasksOf(K) : ~Alive(t)
              /\ ~SpawnPending(K)]_vars

\* C40: every LoadConfig call that has started eventually returns, and the
\* loader mutex is always released again, so that a GetConfig call waiting
\* for its read lock returns.
C40_EveryCallReturns ==
    /\ \A c \in TwoClients : (calls[c].pc # "idle") ~> (calls[c].pc = "idle")
    /\ (lmu # None) ~> (lmu = None)

\* a LoadConfig call waits for the loader mutex while the other call holds it
\* and a scheduler mutex, with a tick task of that scheduler alive
C40_Witness ==
    \E c \in Clients, d \in Clients, K \in Kinds :
        /\ calls[c].pc = "lc_lock"
        /\ lmu = d
        /\ mu[K] = d
        /\ \E t \in TasksOf(K) : Alive(t)

====
